---- MODULE Spec2Model ----
(***************************************************************************)
(* Model of the conversation RAG write path of the repository:             *)
(*   src/src/rag/conversation_store.py    (ConversationStore)              *)
(*   src/src/rag/conversation_indexer.py  (ConversationIndexer)            *)
(*                                                                         *)
(* Everything runs on one asyncio event loop.  A coroutine keeps the loop  *)
(* until it suspends in an await; the variable `running` names the task    *)
(* that holds the loop (None when the loop is free to pick a task).        *)
(* Texts are sequences of one-character strings.                           *)
(***************************************************************************)
EXTENDS Integers, Sequences, FiniteSets, TLC

(***************************************************************************)
(* Bounds of the model.                                                    *)
(***************************************************************************)
\* scaled-down defaults of _split_into_chunks (500 and 50 in the source)
max_chunk_size == 4
overlap == 1
\* the model stops producers once this many records wait in the queue
MaxQueue == 2
\* scaled-down embedding dimension (1536 in the source)
EmbeddingDim == 2
\* ConversationRetriever.max_results_per_search (15 in the source)
max_results_per_search == 4
\* "if len(context_fragments) < 5": the number of fragments that is enough
EnoughFragments == 3
\* max_results of the unscoped scan (5 in the source)
FallbackCap == 2
\* sorted_fragments[:10]: the number of raw fragments returned
RawFragmentsCap == 3
\* the longest text given to _split_into_chunks on its own
MaxSplitLen == 4
\* the largest max_chunk_size given to _split_into_chunks on its own
MaxSplitSize == 2
\* the number of turns of the loop of _split_into_chunks that are followed
MaxTurns == 6
\* the number of rows of product_embeddings
MaxProducts == 2
\* the number of words of a text given to _clean_content
MaxWords == 3
\* the number of times _clean_content is applied to its own result
MaxPasses == 2
\* config['cleanup_days'], in days (90 in the source)
cleanup_days == 1
\* the hours of a day (24): hour 0 resets the daily metrics, hour 1 is the
\* hour of the cleanup, the last hour the hour of the reindex
HoursPerDay == 3
\* the last day the clock reaches
MaxDay == 2
\* ConversationRetriever.max_context_length (2000 in the source)
max_context_length == 38
\* the length a fragment is cut to in the summary (200 in the source)
fragment_cut == 3

None == "None"

(***************************************************************************)
(* Pure helpers of ConversationStore.                                      *)
(***************************************************************************)
\* Python str.strip() restricted to the blank of the modelled alphabet
RECURSIVE LStrip(_)
LStrip(s) == IF s # <<>> /\ Head(s) = " " THEN LStrip(Tail(s)) ELSE s

RECURSIVE RStrip(_)
RStrip(s) == IF s # <<>> /\ s[Len(s)] = " " THEN RStrip(SubSeq(s, 1, Len(s) - 1)) ELSE s

Strip(s) == RStrip(LStrip(s))

\* content[a:b] of Python, 0-based, for 0 <= a and b <= len(content)
Slice(content, a, b) == SubSeq(content, a + 1, b)

(***************************************************************************)
(* ConversationStore._clean_content.  A text is a sequence of characters.  *)
(* The Cyrillic letters of the source are written with ASCII stand-ins:    *)
(*   lower case  a b v g d e z i k l m n o p r s t u c j y                 *)
(*          for  а б в г д е з и к л м н о п р с т у ц ь я                 *)
(*   upper case  B I K C Y  for  Б И К С Я                                 *)
(* The Latin capitals A D R E S N M occur in the placeholders only, and    *)
(* are not Cyrillic letters.  The texts hold no digit and no '@', so the   *)
(* phone and the e-mail substitution (re.sub with a pattern that needs     *)
(* seven digits, or an '@') leave them as they are.                        *)
(***************************************************************************)
\* the lower-case letter of every upper-case one; its domain is [А-ЯЁ]
Lowered == [ch \in {"B", "I", "K", "C", "Y"} |->
              CASE ch = "B" -> "b" [] ch = "I" -> "i" [] ch = "K" -> "k"
                [] ch = "C" -> "s" [] ch = "Y" -> "y"]
\* [а-яё]
CyrillicLower == {"a", "b", "v", "g", "d", "e", "z", "i", "k", "l", "m", "n", "o", "p", "r", "s", "t", "u", "c", "j", "y"}

\* str.lower() of one character; the Latin capitals of a placeholder are left
\* as they are, their lower case being in no keyword and no phrase the result
\* is searched for
LowerChar(ch) == IF ch \in DOMAIN Lowered THEN Lowered[ch] ELSE ch

lower(s) == [i \in 1..Len(s) |-> LowerChar(s[i])]

\* s[p:].startswith(sub), p counted from 1
StartsAt(s, p, sub) ==
  /\ p + Len(sub) - 1 <= Len(s)
  /\ SubSeq(s, p, p + Len(sub) - 1) = sub

\* "sub in s" of Python, for a non-empty sub
Contains(s, sub) == \E p \in 1..Len(s) : StartsAt(s, p, sub)

\* "sub in s.lower()" of Python, for a non-empty lower-case sub
InLowered(s, sub) ==
  \E p \in 1..(Len(s) - Len(sub) + 1) :
    \A i \in 1..Len(sub) : LowerChar(s[p + i - 1]) = sub[i]

\* str.replace(old, new): every occurrence from the left, none overlapping
RECURSIVE Replace(_, _, _, _)
Replace(s, p, old, new) ==
  IF p > Len(s) THEN <<>>
  ELSE IF StartsAt(s, p, old)
       THEN new \o Replace(s, p + Len(old), old, new)
       ELSE <<s[p]>> \o Replace(s, p + 1, old, new)

\* '[ADDRESS]' and '[NAME]'
ADDRESS == <<"[", "A", "D", "D", "R", "E", "S", "S", "]">>
NAME == <<"[", "N", "A", "M", "E", "]">>

\* ['улица', 'ул.', 'проспект', 'пр.', 'переулок', 'пер.', 'дом', 'д.',
\*  'квартира', 'кв.']
address_keywords == << <<"u", "l", "i", "c", "a">>, <<"u", "l", ".">>, <<"p", "r", "o", "s", "p", "e", "k", "t">>, <<"p", "r", ".">>, <<"p", "e", "r", "e", "u", "l", "o", "k">>, <<"p", "e", "r", ".">>, <<"d", "o", "m">>, <<"d", ".">>, <<"k", "v", "a", "r", "t", "i", "r", "a">>, <<"k", "v", ".">> >>

\* the class [А-Яа-я0-9\s\-,.] of the address pattern
AddressClass == DOMAIN Lowered \cup CyrillicLower \cup {" ", "\n", "-", ",", "."}

\* the {1,50} of the address pattern
AddressRunCap == 50

\* the keyword read as a pattern under re.IGNORECASE matches at p: a letter
\* matches itself in either case, the full stop of an abbreviation is the
\* wildcard and matches any character but a line break
KeywordAt(s, p, keyword) ==
  /\ p + Len(keyword) - 1 <= Len(s)
  /\ \A i \in 1..Len(keyword) :
       IF keyword[i] = "." THEN s[p + i - 1] # "\n"
       ELSE LowerChar(s[p + i - 1]) = keyword[i]

\* the number of characters from p on that are in class
RECURSIVE RunFrom(_, _, _)
RunFrom(s, p, class) ==
  IF p <= Len(s) /\ s[p] \in class THEN 1 + RunFrom(s, p + 1, class) ELSE 0

\* the length of the match of rf'{keyword}[\s]*[А-Яа-я0-9\s\-,.]{1,50}' at
\* p, 0 for no match: [\s]* takes the blanks and the class the characters
\* after them; when only blanks follow, [\s]* gives the last one back to the
\* class, which must match one character at least
AddressMatchLen(s, p, keyword) ==
  IF ~KeywordAt(s, p, keyword) THEN 0
  ELSE LET after == p + Len(keyword)
           blanks == RunFrom(s, after, {" ", "\n"})
           run == RunFrom(s, after, AddressClass)
       IN IF run = 0 THEN 0
          ELSE Len(keyword)
               + (IF run <= blanks + AddressRunCap THEN run ELSE blanks + AddressRunCap)

\* re.sub(pattern, f'{keyword} [ADDRESS]', cleaned, flags=re.IGNORECASE)
RECURSIVE SubAddress(_, _, _)
SubAddress(s, p, keyword) ==
  IF p > Len(s) THEN <<>>
  ELSE LET n == AddressMatchLen(s, p, keyword) IN
    IF n > 0
    THEN keyword \o <<" ">> \o ADDRESS \o SubAddress(s, p + n, keyword)
    ELSE <<s[p]>> \o SubAddress(s, p + 1, keyword)

\* "for keyword in address_keywords: if keyword in cleaned.lower(): ..."
RECURSIVE MaskAddresses(_, _)
MaskAddresses(cleaned, i) ==
  IF i > Len(address_keywords) THEN cleaned
  ELSE MaskAddresses(IF InLowered(cleaned, address_keywords[i])
                     THEN SubAddress(cleaned, 1, address_keywords[i])
                     ELSE cleaned, i + 1)

\* ['меня зовут', 'мое имя', 'я ', ' я ']
name_phrases == { <<"m", "e", "n", "y", " ", "z", "o", "v", "u", "t">>, <<"m", "o", "e", " ", "i", "m", "y">>, <<"y", " ">>, <<" ", "y", " ">> }

\* ['Янтарь', 'Браслет', 'Серьги', 'Кольцо']
product_names == { <<"Y", "n", "t", "a", "r", "j">>, <<"B", "r", "a", "s", "l", "e", "t">>, <<"C", "e", "r", "j", "g", "i">>, <<"K", "o", "l", "j", "c", "o">> }

\* \w of a pattern: a letter (Cyrillic or Latin), not a blank, a bracket or
\* a punctuation mark
RegexWordChar(ch) == ch \notin {" ", "\n", ".", ",", "-", ";", ":", "[", "]"}

\* the length of the match of r'\b[А-ЯЁ][а-яё]{2,}\b' at p, 0 for no match
NameMatchLen(s, p) ==
  IF ~(s[p] \in DOMAIN Lowered /\ (p = 1 \/ ~RegexWordChar(s[p - 1]))) THEN 0
  ELSE LET run == RunFrom(s, p + 1, CyrillicLower) IN
    IF run >= 2 /\ (p + run = Len(s) \/ ~RegexWordChar(s[p + run + 1]))
    THEN 1 + run ELSE 0

\* re.findall(name_pattern, cleaned)
RECURSIVE FindNames(_, _)
FindNames(s, p) ==
  IF p > Len(s) THEN <<>>
  ELSE LET n == NameMatchLen(s, p) IN
    IF n > 0 THEN <<SubSeq(s, p, p + n - 1)>> \o FindNames(s, p + n)
    ELSE FindNames(s, p + 1)

\* "for name in potential_names: if name not in [...]:
\*      cleaned = cleaned.replace(name, '[NAME]')"
RECURSIVE ReplaceNames(_, _, _)
ReplaceNames(cleaned, potential_names, i) ==
  IF i > Len(potential_names) THEN cleaned
  ELSE ReplaceNames(IF potential_names[i] \notin product_names
                    THEN Replace(cleaned, 1, potential_names[i], NAME)
                    ELSE cleaned, potential_names, i + 1)

\* the name step: only when one of the phrases is in cleaned.lower()
MaskNames(cleaned) ==
  IF \E word \in name_phrases : InLowered(cleaned, word)
  THEN ReplaceNames(cleaned, FindNames(cleaned, 1), 1)
  ELSE cleaned

\* _clean_content: an empty text is returned as it is; else the address
\* step, the name step and strip()
_clean_content(content) ==
  IF content = <<>> THEN content
  ELSE Strip(MaskNames(MaskAddresses(content, 1)))

\* the backward scan "for i in range(end, start + overlap, -1)": the first
\* terminator met, i.e. the largest i in start+overlap+1 .. end; -1 if none
GoodBreak(content, start, end, ov) ==
  LET hits == {i \in (start + ov + 1)..end : content[i + 1] \in {".", "!", "?"}}
  IN IF hits = {} THEN -1
     ELSE (CHOOSE i \in hits : \A j \in hits : j <= i) + 1

\* content.rfind(' ', start + overlap, end)
SpaceBreak(content, start, end, ov) ==
  LET hits == {i \in (start + ov)..(end - 1) : content[i + 1] = " "}
  IN IF hits = {} THEN -1
     ELSE CHOOSE i \in hits : \A j \in hits : j <= i

\* SplitTurn with a sentence break that steps back one character more than
\* overlap
SplitTurn_DeeperOverlap(content, start, maxsz, ov) ==
  LET end == start + maxsz IN
  IF end >= Len(content)
  THEN [chunk |-> Slice(content, start, Len(content)), last |-> TRUE,
        start |-> start]
  ELSE LET good_break == GoodBreak(content, start, end, ov) IN
    IF good_break # -1
    THEN [chunk |-> Slice(content, start, good_break), last |-> FALSE,
          start |-> good_break - ov - 1]
    ELSE LET space_break == SpaceBreak(content, start, end, ov) IN
      IF space_break # -1
      THEN [chunk |-> Slice(content, start, space_break), last |-> FALSE,
            start |-> space_break - ov + 1]
      ELSE [chunk |-> Slice(content, start, end), last |-> FALSE,
            start |-> end - ov]

\* one turn of the while loop of _split_into_chunks, entered with
\* start < len(content): the chunk it appends, whether it breaks out of the
\* loop, and the start it goes on with
SplitTurn(content, start, maxsz, ov) ==
  LET end == start + maxsz IN
  IF end >= Len(content)
  THEN [chunk |-> Slice(content, start, Len(content)), last |-> TRUE,
        start |-> start]
  ELSE LET good_break == GoodBreak(content, start, end, ov) IN
    IF good_break # -1
    THEN [chunk |-> Slice(content, start, good_break), last |-> FALSE,
          start |-> good_break - ov]
    ELSE LET space_break == SpaceBreak(content, start, end, ov) IN
      IF space_break # -1
      THEN [chunk |-> Slice(content, start, space_break), last |-> FALSE,
            start |-> space_break - ov + 1]
      ELSE [chunk |-> Slice(content, start, end), last |-> FALSE,
            start |-> end - ov]

\* the while loop of _split_into_chunks: the raw chunks cut from `start` on
RECURSIVE SplitLoop(_, _, _, _, _)
SplitLoop(content, start, maxsz, ov, chunks) ==
  IF ~(start < Len(content)) THEN chunks
  ELSE LET turn == SplitTurn(content, start, maxsz, ov) IN
    IF turn.last THEN Append(chunks, turn.chunk)
    ELSE SplitLoop(content, turn.start, maxsz, ov, Append(chunks, turn.chunk))

\* [chunk.strip() for chunk in chunks if chunk.strip()]
RECURSIVE StripNonEmpty(_)
StripNonEmpty(chunks) ==
  IF chunks = <<>> THEN <<>>
  ELSE LET c == Strip(Head(chunks)) IN
       IF c = <<>> THEN StripNonEmpty(Tail(chunks))
       ELSE <<c>> \o StripNonEmpty(Tail(chunks))

\* ConversationStore._split_into_chunks(content, max_chunk_size, overlap)
_split_into_chunks(content, maxsz, ov) ==
  IF Len(content) <= maxsz THEN <<content>>
  ELSE StripNonEmpty(SplitLoop(content, 0, maxsz, ov, <<>>))


(***************************************************************************)
(* Inputs.                                                                 *)
(***************************************************************************)
Callers == {"c1"}
\* the task objects asyncio.create_task(_process_indexing_queue()) may return
Workers == {"w1", "w2"}
Tasks == Callers \cup Workers

Customers == {"u1"}
SenderTypes == {"customer"}
DealIds == {None}
\* the message_id argument: absent (None or "" in Python) or caller-supplied
NoId == <<>>
SuppliedIds == {<<"m1">>}
\* a one-chunk text and a text that is cut into two chunks
Contents == { <<"a">>, <<"a", "a", ".", " ", "a", "a">> }

\* the values uuid.uuid4().hex[:8] may take
Uuids == {"x1"}
\* f"{customer_id}_{int(datetime.now().timestamp())}_{uuid.uuid4().hex[:8]}"
GeneratedId(customer_id, uuid) == <<customer_id, "_", "ts", "_", uuid>>

\* ConversationStore.embedding_dimension
embedding_dimension == EmbeddingDim
ZeroVector == [i \in 1..embedding_dimension |-> 0]
\* the vectors the embedding API may answer with
ApiVectors == { [i \in 1..embedding_dimension |-> IF i = 1 THEN 1 ELSE 0] }
\* outcome of client.embeddings.create: a vector, or an exception
ApiError == <<>>
ApiOutcomes == ApiVectors \cup {ApiError}

\* the outcome of the API call handed on as it is: no vector is put in the
\* place of a failed call
_get_embedding_NoFallback(api) == api
\* ConversationStore._get_embedding: the API's vector, or on any exception
\* the zero vector of the embedding dimension (the error is only logged)
_get_embedding(api) == IF api = ApiError THEN ZeroVector ELSE api

\* ConversationIndexer._detect_intent on the modelled alphabet (no keyword
\* of any intent occurs in a text): None for an empty text, else the default
_detect_intent(content, sender_type) ==
  IF content = <<>> THEN None ELSE "general_inquiry"

\* ConversationIndexer._detect_category on the modelled texts: None for an
\* empty text, 'rings' for a text that holds 'кольцо' (the one category
\* keyword a modelled text can hold), else the category of the sender type
_detect_category(content, sender_type) ==
  IF content = <<>> THEN None
  ELSE IF InLowered(content, <<"k", "o", "l", "j", "c", "o">>) THEN "rings"
  ELSE IF sender_type = "customer" THEN "customer_inquiry"
  ELSE IF sender_type = "bot" THEN "bot_response"
  ELSE IF sender_type = "manager" THEN "manager_communication"
  ELSE "general"

(***************************************************************************)
(* State.                                                                  *)
(***************************************************************************)
VARIABLES
  conversation_messages,  \* table: the record rows, oldest timestamp first
  conversation_chunks,    \* table: the chunk rows in insertion (rowid) order
  indexing_queue,         \* ConversationIndexer.indexing_queue
  is_processing,          \* ConversationIndexer.is_processing
  running,                \* the task that holds the event loop, or None
  pc,                     \* where each task stands
  call,                   \* the local variables of each task's current call
  used_uuids,             \* the uuid4 values drawn so far (never drawn twice)
  pre_call,               \* history: the tables as the audited call found them,
                          \* and the last ingest issued for each message_id
  now,                    \* datetime.now(), in days
  retrieval,              \* the frame of the current get_relevant_context call
  maint                   \* the scheduler of the manager and its last outcomes

vars == <<conversation_messages, conversation_chunks, indexing_queue,
          is_processing, running, pc, call, used_uuids, pre_call, now, retrieval, maint>>

\* asyncio.Queue(): maxsize 0, which asyncio treats as "no limit"
maxsize == 0
\* asyncio.Queue.full()
Full(queue) == IF maxsize <= 0 THEN FALSE ELSE Len(queue) >= maxsize

\* days_back = None, where a number of days can stand
NoDays == 0 - 1

NoCall == [op |-> "none", message_id |-> NoId, customer_id |-> None,
           sender_type |-> None, content |-> <<>>, deal_id |-> None,
           intent |-> None, category |-> None, arg_id |-> NoId,
           chunks |-> <<>>, chunk_index |-> 0, success |-> "none",
           zero_vectors |-> 0, seen |-> <<>>, in_flight |-> {},
           error |-> FALSE, deleted |-> 0, stats |-> <<>>,
           maxsz |-> 0, ov |-> 0, start |-> 0, raw |-> <<>>,
           cleaned |-> <<>>, repeated |-> FALSE, again_error |-> FALSE,
           again_deleted |-> 0,
           query_embedding |-> <<>>, filter |-> [customer_id |-> None, deal_id |-> None, intent |-> None,
                       category |-> None, days_back |-> NoDays], threshold |-> 0,
           max_results |-> 0, products |-> <<>>]

\* the frame of get_relevant_context before any call: context_fragments and
\* search_metadata as the call creates them, plus the history of the call
\* (scans: every search_similar_messages call issued; executed: every tier
\* whose search function was called, with the number of results it gave)
NoRetrieval ==
  [customer_id |-> None, deal_id |-> None, context_type |-> None,
   context_fragments |-> <<>>,
   searches_performed |-> 0, total_fragments_found |-> 0,
   similarity_thresholds_used |-> <<>>,
   scans |-> <<>>, executed |-> <<>>,
   context_summary |-> <<>>, raw_fragments |-> <<>>,
   total_relevant_fragments |-> 0, uncut_summary |-> <<>>]

\* metrics['last_cleanup'] and metrics['last_batch_reindex'] before the first
\* run (None in the source); otherwise the day of the last run
NoDate == 0 - 1

\* ConversationRAGManager after construction: the scheduler is not running,
\* no cleanup and no reindex has run; hour is datetime.now().hour;
\* config_max_context_length is config['max_context_length'], by default
\* the number the retriever is built with
NoMaint(hour) ==
  [is_scheduler_running |-> FALSE, scheduler_task |-> "none", hour |-> hour,
   config_max_context_length |-> max_context_length,
   last_cleanup |-> NoDate, last_batch_reindex |-> NoDate]

Init ==
  /\ now = 0
  /\ retrieval = NoRetrieval
  /\ maint = NoMaint(0)
  /\ conversation_messages = <<>>
  /\ conversation_chunks = <<>>
  /\ indexing_queue = <<>>
  /\ is_processing = FALSE
  /\ running = None
  /\ pc = [t \in Tasks |-> IF t \in Callers THEN "idle" ELSE "none"]
  /\ call = [t \in Tasks |-> NoCall]
  /\ used_uuids = {}
  /\ pre_call = [messages |-> <<>>, chunks |-> <<>>, issued |-> <<>>]

\* a task may take a step when it holds the loop or the loop is free
CanRun(t) == running = t \/ running = None


(***************************************************************************)
(* ConversationStore.store_message, one sqlite transaction per step.       *)
(***************************************************************************)
\* the rows of a table that satisfy Keep
RowsOf(rows, message_id) ==
  LET Keep(r) == r.message_id = message_id IN SelectSeq(rows, Keep)

\* the chunk rows left by "DELETE FROM conversation_chunks WHERE
\* message_id = ?", the delete skipped
DeleteChunks_Skipped(rows, message_id) == rows
\* "DELETE FROM conversation_chunks WHERE message_id = ?"
DeleteChunks(rows, message_id) ==
  LET Keep(r) == r.message_id # message_id IN SelectSeq(rows, Keep)

\* the record row is not written
InsertOrReplace_Skipped(rows, row) == rows
\* "INSERT OR REPLACE INTO conversation_messages": message_id is UNIQUE, so
\* the old row of the id goes; the new row carries timestamp datetime.now()
\* and a new rowid, which makes it the last row of the table
InsertOrReplace(rows, row) ==
  LET Keep(r) == r.message_id # row.message_id
  IN Append(SelectSeq(rows, Keep), row)

\* the task gives the loop away after each transaction (as an awaited
\* database or embedding call would)
StoreStepRunning_Yields(t) == None
\* who holds the event loop after a transaction of store_message: the same
\* task, because sqlite3 and _get_embedding are called without any await
StoreStepRunning(t) == t

\* where the caller of store_message stands once it has returned:
\* index_message_sync logs the outcome and returns message_id whatever the
\* outcome was; the worker has yet to call task_done()
AfterStore(op) == IF op = "sync" THEN "returned" ELSE "stored"

\* start of store_message for task t: _clean_content, then the first
\* transaction (INSERT OR REPLACE of the record row and DELETE of its old
\* chunks), which commits or fails as a whole, then _split_into_chunks
StoreBegin(t, op, message_id, customer_id, sender_type, content, deal_id, intent, category) ==
  \E io_error \in BOOLEAN :
    LET cleaned_content == _clean_content(content)
        row == [message_id |-> message_id, customer_id |-> customer_id,
                deal_id |-> deal_id, sender_type |-> sender_type,
                content |-> content, cleaned_content |-> cleaned_content,
                timestamp |-> now,
                intent |-> intent, category |-> category]
        chunks == _split_into_chunks(cleaned_content, max_chunk_size, overlap)
        frame == [NoCall EXCEPT !.op = op, !.message_id = message_id,
                    !.customer_id = customer_id, !.sender_type = sender_type,
                    !.content = content, !.deal_id = deal_id,
                    !.intent = intent, !.category = category]
    IN IF io_error
       THEN \* except Exception: the transaction is rolled back, return False
            /\ UNCHANGED <<conversation_messages, conversation_chunks>>
            /\ call' = [call EXCEPT ![t] = [frame EXCEPT !.success = "false"]]
            /\ pc' = [pc EXCEPT ![t] = AfterStore(op)]
       ELSE /\ conversation_messages' =
                 InsertOrReplace(conversation_messages, row)
            /\ conversation_chunks' =
                 DeleteChunks(conversation_chunks, message_id)
            /\ call' = [call EXCEPT ![t] = [frame EXCEPT !.chunks = chunks]]
            /\ pc' = [pc EXCEPT ![t] = "chunks"]

\* one iteration of "for chunk_index, chunk_content in enumerate(chunks)":
\* a blank chunk is skipped; otherwise the chunk is embedded and inserted in
\* a transaction of its own, which commits or fails; after the last chunk
\* store_message returns True
StoreChunkWith(t, api_outcomes) ==
  /\ pc[t] = "chunks"
  /\ CanRun(t)
  /\ LET c == call[t]
         last == c.chunk_index >= Len(c.chunks)
     IN IF last
        THEN /\ call' = [call EXCEPT ![t].success = "true"]
             /\ pc' = [pc EXCEPT ![t] = AfterStore(c.op)]
             /\ UNCHANGED conversation_chunks
        ELSE LET chunk_content == c.chunks[c.chunk_index + 1] IN
          IF Strip(chunk_content) = <<>>
          THEN /\ call' = [call EXCEPT ![t].chunk_index = @ + 1]
               /\ UNCHANGED <<pc, conversation_chunks>>
          ELSE \E api \in api_outcomes, io_error \in BOOLEAN :
            LET embedding == _get_embedding(api) IN
            IF io_error
            THEN /\ call' = [call EXCEPT ![t].success = "false",
                               ![t].zero_vectors = @ + (IF api = ApiError THEN 1 ELSE 0)]
                 /\ pc' = [pc EXCEPT ![t] = AfterStore(c.op)]
                 /\ UNCHANGED conversation_chunks
            ELSE /\ conversation_chunks' = Append(conversation_chunks,
                       [message_id |-> c.message_id,
                        chunk_index |-> c.chunk_index,
                        content |-> chunk_content,
                        embedding |-> embedding])
                 /\ call' = [call EXCEPT ![t].chunk_index = @ + 1,
                               ![t].zero_vectors = @ + (IF api = ApiError THEN 1 ELSE 0)]
                 /\ UNCHANGED pc
  /\ running' = StoreStepRunning(t)
  /\ UNCHANGED <<conversation_messages, indexing_queue, is_processing, used_uuids, pre_call, now, retrieval, maint>>

\* the chunk loop with an embedding API that answers or fails
StoreChunk(t) == StoreChunkWith(t, ApiOutcomes)



(***************************************************************************)
(* ConversationStore.search_similar_messages.                              *)
(***************************************************************************)
Dot(a, b) == LET RECURSIVE Sum(_)
                 Sum(i) == IF i = 0 THEN 0 ELSE a[i] * b[i] + Sum(i - 1)
             IN Sum(Len(a))

\* a zero norm is not looked at: the similarity is taken to be 1
cosine_similarity_ZeroIsOne(a, b) ==
  LET n == Dot(a, a) * Dot(b, b)
  IN IF n = 0 THEN <<1, 1>> ELSE <<Dot(a, b), n>>

\* sklearn cosine_similarity(a, b) kept exact as the pair <<dot, |a|^2 |b|^2>>:
\* the similarity is dot / sqrt(|a|^2 |b|^2), and 0 when a norm is 0 (sklearn
\* normalises a zero vector to itself, so the product is 0, never x/0)
cosine_similarity(a, b) ==
  LET n == Dot(a, a) * Dot(b, b)
  IN IF n = 0 THEN <<0, 1>> ELSE <<Dot(a, b), n>>

\* s1 >= s2 for two similarities
SimGeq(s1, s2) ==
  IF s1[1] >= 0 /\ s2[1] >= 0 THEN s1[1] * s1[1] * s2[2] >= s2[1] * s2[1] * s1[2]
  ELSE IF s1[1] >= 0 THEN TRUE
  ELSE IF s2[1] >= 0 THEN FALSE
  ELSE s1[1] * s1[1] * s2[2] <= s2[1] * s2[1] * s1[2]

\* similarity >= similarity_threshold, the threshold given in hundredths
AtLeast(sim, threshold_pct) == SimGeq(sim, <<threshold_pct, 10000>>)

\* the results are left in the order of the rows
SortBySimilarity_None(results) == results

\* results.sort(key=similarity, reverse=True): stable, ties keep their order
RECURSIVE SortBySimilarity(_)
SortBySimilarity(results) ==
  IF results = <<>> THEN <<>>
  ELSE LET rest == SortBySimilarity(Tail(results))
           h == Head(results)
           \* h goes before the first element of rest that is not greater
           Before(i) == \A j \in 1..i : ~SimGeq(h.similarity, rest[j].similarity)
           k == Cardinality({i \in 1..Len(rest) : Before(i)})
       IN SubSeq(rest, 1, k) \o <<h>> \o SubSeq(rest, k + 1, Len(rest))

\* the filter arguments of search_similar_messages; an argument that is not
\* true in Python (None, and 0 for days_back) adds no condition to the WHERE
\* clause
ScanFilter(customer_id, deal_id, intent, category, days_back) ==
  [customer_id |-> customer_id, deal_id |-> deal_id, intent |-> intent,
   category |-> category, days_back |-> days_back]

\* the WHERE clause: every supplied condition holds (AND); cutoff_date is
\* datetime.now() - timedelta(days=days_back)
Matches(cm, f, clock) ==
  /\ f.customer_id # None => cm.customer_id = f.customer_id
  /\ f.deal_id # None => cm.deal_id = f.deal_id
  /\ f.intent # None => cm.intent = f.intent
  /\ f.category # None => cm.category = f.category
  /\ (f.days_back # NoDays /\ f.days_back # 0) =>
       cm.timestamp >= clock - f.days_back

\* the SELECT ... FROM conversation_chunks cc JOIN conversation_messages cm
\* ... WHERE ... ORDER BY cm.timestamp DESC: the joined rows, newest record
\* first
RECURSIVE JoinedRows(_, _, _, _)
JoinedRows(messages, chunk_rows, f, clock) ==
  IF messages = <<>> THEN <<>>
  ELSE LET cm == messages[Len(messages)]
           older == JoinedRows(SubSeq(messages, 1, Len(messages) - 1),
                               chunk_rows, f, clock)
           mine == RowsOf(chunk_rows, cm.message_id)
       IN IF ~Matches(cm, f, clock) THEN older
          ELSE [i \in 1..Len(mine) |->
                  [message_id |-> mine[i].message_id,
                   chunk_index |-> mine[i].chunk_index,
                   content |-> mine[i].content,
                   embedding |-> mine[i].embedding,
                   customer_id |-> cm.customer_id,
                   deal_id |-> cm.deal_id,
                   sender_type |-> cm.sender_type,
                   intent |-> cm.intent,
                   category |-> cm.category]] \o older

\* results[:max_results]
Limit(results, max_results) ==
  SubSeq(results, 1, IF Len(results) < max_results THEN Len(results) ELSE max_results)

\* the result list of search_similar_messages over the current tables
SearchResults(messages, chunk_rows, query_embedding, f, clock, threshold_pct, max_results) ==
  LET rows == JoinedRows(messages, chunk_rows, f, clock)
      scored == [i \in 1..Len(rows) |->
                  [message_id |-> rows[i].message_id,
                   chunk_index |-> rows[i].chunk_index,
                   content |-> rows[i].content,
                   customer_id |-> rows[i].customer_id,
                   deal_id |-> rows[i].deal_id,
                   sender_type |-> rows[i].sender_type,
                   intent |-> rows[i].intent,
                   category |-> rows[i].category,
                   similarity |-> cosine_similarity(query_embedding,
                                                    rows[i].embedding)]]
      Passes(r) == AtLeast(r.similarity, threshold_pct)
      sorted == SortBySimilarity(SelectSeq(scored, Passes))
  IN Limit(sorted, max_results)


(***************************************************************************)
(* ConversationIndexer.                                                    *)
(***************************************************************************)
\* the worker task slots not in use
FreeSlots == {w \in Workers : pc[w] = "none"}

\* "if not self.is_processing: asyncio.create_task(...)"
SpawnsWorker(processing) == ~processing

\* the queue entry carries another id than the one returned
QueuedId_Other(message_id) == <<"other">>
\* 'message_id': message_id in the dict put on the queue
QueuedId(message_id) == message_id

\* index_message_async: choose the id, detect intent and category, put the
\* record on the queue (suspending while the queue is full), start a worker
\* task unless one is processing, return the id
index_message_async(c) ==
  /\ pc[c] \in {"idle", "putwait"}
  /\ running = None
  /\ Len(indexing_queue) < MaxQueue
  /\ \E customer_id \in Customers, sender_type \in SenderTypes,
        content \in Contents, deal_id \in DealIds,
        arg_id \in SuppliedIds \cup {NoId}, uuid \in Uuids :
       LET resumed == pc[c] = "putwait"
           generate == ~resumed /\ arg_id = NoId
           message_id == IF generate
                         THEN GeneratedId(customer_id, uuid)
                         ELSE arg_id
           frame == IF resumed THEN call[c]
                    ELSE [NoCall EXCEPT !.op = "async",
                            !.arg_id = arg_id,
                            !.message_id = message_id,
                            !.customer_id = customer_id,
                            !.sender_type = sender_type,
                            !.content = content, !.deal_id = deal_id,
                            !.intent = _detect_intent(content, sender_type),
                            !.category = _detect_category(content, sender_type)]
           message_data == [message_id |-> QueuedId(frame.message_id),
                            customer_id |-> frame.customer_id,
                            sender_type |-> frame.sender_type,
                            content |-> frame.content,
                            deal_id |-> frame.deal_id,
                            intent |-> frame.intent,
                            category |-> frame.category]
       IN /\ generate => uuid \notin used_uuids
          /\ used_uuids' = IF generate THEN used_uuids \cup {uuid} ELSE used_uuids
          /\ call' = [call EXCEPT ![c] = frame]
          /\ IF Full(indexing_queue)
             THEN \* await self.indexing_queue.put(...) suspends the caller
                  /\ pc' = [pc EXCEPT ![c] = "putwait"]
                  /\ running' = None
                  /\ UNCHANGED indexing_queue
             ELSE /\ indexing_queue' = Append(indexing_queue, message_data)
                  /\ IF SpawnsWorker(is_processing)
                     THEN /\ FreeSlots # {}
                          /\ pc' = [pc EXCEPT ![c] = "returned",
                                      ![CHOOSE w \in FreeSlots : TRUE] = "created"]
                     ELSE pc' = [pc EXCEPT ![c] = "returned"]
                  /\ running' = c
  /\ UNCHANGED <<conversation_messages, conversation_chunks, is_processing,
                 now, retrieval, maint>>

\* index_message_sync: the id, intent and category, then store_message up to
\* its first transaction; the call returns where store_message does
index_message_sync_for(c, customers, sender_types, contents, deal_ids, arg_ids) ==
  /\ pc[c] = "idle"
  /\ running = None
  /\ \E customer_id \in customers, sender_type \in sender_types,
        content \in contents, deal_id \in deal_ids,
        arg_id \in arg_ids, uuid \in Uuids :
       LET generate == arg_id = NoId
           message_id == IF generate
                         THEN GeneratedId(customer_id, uuid)
                         ELSE arg_id
       IN /\ generate => uuid \notin used_uuids
          /\ used_uuids' = IF generate THEN used_uuids \cup {uuid} ELSE used_uuids
          /\ StoreBegin(c, "sync", message_id, customer_id, sender_type,
                        content, deal_id,
                        _detect_intent(content, sender_type),
                        _detect_category(content, sender_type))
  /\ running' = StoreStepRunning(c)
  /\ UNCHANGED <<indexing_queue, is_processing>>

\* index_message_sync for the one customer of the indexer model
index_message_sync_with(c, sender_types, contents, deal_ids, arg_ids) ==
  index_message_sync_for(c, Customers, sender_types, contents, deal_ids, arg_ids)

\* index_message_sync with the arguments the indexer model draws
index_message_sync(c) ==
  index_message_sync_with(c, SenderTypes, Contents, DealIds,
                          SuppliedIds \cup {NoId})

\* index_message_sync as the indexer runs it
index_message_sync_plain(c) ==
  index_message_sync(c) /\ UNCHANGED <<pre_call, now, retrieval, maint>>

\* index_message_sync with the tables it starts from written to the history
index_message_sync_audited(c) ==
  /\ index_message_sync(c)
  /\ pre_call' = [pre_call EXCEPT !.messages = conversation_messages,
                                  !.chunks = conversation_chunks]
  /\ UNCHANGED <<now, retrieval, maint>>

\* what the except branch of search_similar_messages returns: []
search_on_error == <<>>

\* search_similar_messages: the query is embedded, the tables are read in one
\* SELECT, the rows are scored, filtered, sorted and cut; nothing is written.
\* Any exception (a storage error in the SELECT) is logged and the call
\* returns the empty list.
\* The frame keeps the arguments of the call with the result.
search_similar_messages_with(c, api_outcomes, filters, thresholds, limits) ==
  /\ pc[c] = "idle"
  /\ running = None
  /\ \E api \in api_outcomes, f \in filters, similarity_threshold \in thresholds,
        max_results \in limits, io_error \in BOOLEAN :
       call' = [call EXCEPT ![c] =
                  [NoCall EXCEPT !.op = "search",
                     !.query_embedding = _get_embedding(api),
                     !.filter = f,
                     !.threshold = similarity_threshold,
                     !.max_results = max_results,
                     !.seen = IF io_error THEN search_on_error
                              ELSE SearchResults(conversation_messages,
                                     conversation_chunks, _get_embedding(api),
                                     f, now, similarity_threshold, max_results),
                     !.error = io_error,
                     !.in_flight = {t \in Tasks : pc[t] = "chunks"}]]
  /\ pc' = [pc EXCEPT ![c] = "returned"]
  /\ running' = c
  /\ UNCHANGED <<conversation_messages, conversation_chunks, indexing_queue,
                 is_processing, used_uuids, pre_call, now, retrieval, maint>>

\* search_similar_messages that deletes the chunk rows it has scanned
search_similar_messages_Purging(c) ==
  /\ pc[c] = "idle"
  /\ running = None
  /\ \E api \in ApiOutcomes, customer_id \in Customers \cup {None},
        io_error \in BOOLEAN :
       call' = [call EXCEPT ![c] =
                  [NoCall EXCEPT !.op = "search",
                     !.seen = IF io_error THEN search_on_error
                              ELSE SearchResults(conversation_messages,
                                     conversation_chunks, _get_embedding(api),
                                     ScanFilter(customer_id, None, None, None, 0),
                                     now, 60, 10),
                     !.error = io_error,
                     !.in_flight = {t \in Tasks : pc[t] = "chunks"}]]
  /\ pc' = [pc EXCEPT ![c] = "returned"]
  /\ running' = c
  /\ conversation_chunks' = <<>>
  /\ UNCHANGED <<conversation_messages, indexing_queue,
                 is_processing, used_uuids, pre_call, now, retrieval, maint>>

\* search_similar_messages for a customer or for all, with the default
\* similarity_threshold 0.6 and max_results 10; the frame keeps the result
search_similar_messages(c) ==
  /\ pc[c] = "idle"
  /\ running = None
  /\ \E api \in ApiOutcomes, customer_id \in Customers \cup {None},
        io_error \in BOOLEAN :
       call' = [call EXCEPT ![c] =
                  [NoCall EXCEPT !.op = "search",
                     !.seen = IF io_error THEN search_on_error
                              ELSE SearchResults(conversation_messages,
                                     conversation_chunks, _get_embedding(api),
                                     ScanFilter(customer_id, None, None, None, 0),
                                     now, 60, 10),
                     !.error = io_error,
                     !.in_flight = {t \in Tasks : pc[t] = "chunks"}]]
  /\ pc' = [pc EXCEPT ![c] = "returned"]
  /\ running' = c
  /\ UNCHANGED <<conversation_messages, conversation_chunks, indexing_queue,
                 is_processing, used_uuids, pre_call, now, retrieval, maint>>

\* the caller's task goes on with other work and lets the loop go; the frame
\* of its call is gone
CallerDone(c) ==
  /\ pc[c] = "returned"
  /\ running = c
  /\ pc' = [pc EXCEPT ![c] = "idle"]
  /\ call' = [call EXCEPT ![c] = NoCall]
  /\ retrieval' = NoRetrieval
  /\ running' = None
  /\ UNCHANGED <<conversation_messages, conversation_chunks, indexing_queue,
                 is_processing, used_uuids, pre_call, now, maint>>

\* the worker enters its loop without looking at the flag
WorkerReturnsEarly_Never(processing) == FALSE
\* "if self.is_processing: return" at the head of _process_indexing_queue
WorkerReturnsEarly(processing) == processing

\* a created worker task runs for the first time: it returns at once if a
\* worker is processing, else sets the flag and reaches wait_for(queue.get())
WorkerStart(w) ==
  /\ pc[w] = "created"
  /\ running = None
  /\ IF WorkerReturnsEarly(is_processing)
     THEN /\ pc' = [pc EXCEPT ![w] = "none"]
          /\ UNCHANGED is_processing
     ELSE /\ is_processing' = TRUE
          /\ pc' = [pc EXCEPT ![w] = "loop"]
  /\ UNCHANGED <<conversation_messages, conversation_chunks, indexing_queue,
                 running, call, used_uuids, pre_call, now, retrieval, maint>>

\* await asyncio.wait_for(self.indexing_queue.get(), timeout=5.0): the head
\* of the queue is taken, or the worker suspends on the empty queue
WorkerGet(w) ==
  /\ pc[w] = (IF indexing_queue = <<>> THEN "loop" ELSE pc[w])
  /\ pc[w] \in {"loop", "waiting"}
  /\ running = None
  /\ IF indexing_queue = <<>>
     THEN /\ pc' = [pc EXCEPT ![w] = "waiting"]
          /\ UNCHANGED <<indexing_queue, call>>
     ELSE LET message_data == Head(indexing_queue) IN
          /\ indexing_queue' = Tail(indexing_queue)
          /\ call' = [call EXCEPT ![w] =
                        [NoCall EXCEPT !.op = "worker",
                           !.message_id = message_data.message_id,
                           !.customer_id = message_data.customer_id,
                           !.sender_type = message_data.sender_type,
                           !.content = message_data.content,
                           !.deal_id = message_data.deal_id,
                           !.intent = message_data.intent,
                           !.category = message_data.category]]
          /\ pc' = [pc EXCEPT ![w] = "got"]
  /\ UNCHANGED <<conversation_messages, conversation_chunks, is_processing,
                 running, used_uuids, pre_call, now, retrieval, maint>>

\* the worker calls store.store_message with the fields of message_data
WorkerStore(w) ==
  /\ pc[w] = "got"
  /\ running = None
  /\ StoreBegin(w, "worker", call[w].message_id, call[w].customer_id,
                call[w].sender_type, call[w].content, call[w].deal_id,
                call[w].intent, call[w].category)
  /\ running' = StoreStepRunning(w)
  /\ UNCHANGED <<indexing_queue, is_processing, used_uuids, pre_call, now, retrieval, maint>>

\* store_message has returned: a failure is logged, task_done() is called and
\* the loop goes back to wait_for(queue.get())
WorkerTaskDone(w) ==
  /\ pc[w] = "stored"
  /\ call[w].op = "worker"
  /\ CanRun(w)
  /\ pc' = [pc EXCEPT ![w] = "loop"]
  /\ call' = [call EXCEPT ![w] = NoCall]
  /\ running' = None
  /\ UNCHANGED <<conversation_messages, conversation_chunks, indexing_queue,
                 is_processing, used_uuids, pre_call, now, retrieval, maint>>

\* the 5 s timer of wait_for fires on the empty queue: the pending get() is
\* cancelled and the worker is scheduled to resume with TimeoutError
WorkerTimeout(w) ==
  /\ pc[w] = "waiting"
  /\ indexing_queue = <<>>
  /\ running = None
  /\ pc' = [pc EXCEPT ![w] = "timedout"]
  /\ UNCHANGED <<conversation_messages, conversation_chunks, indexing_queue,
                 is_processing, running, call, used_uuids, pre_call, now, retrieval, maint>>

\* the worker resumes: "except asyncio.TimeoutError: break", then
\* "finally: self.is_processing = False"; the task ends
WorkerExit(w) ==
  /\ pc[w] = "timedout"
  /\ running = None
  /\ is_processing' = FALSE
  /\ pc' = [pc EXCEPT ![w] = "none"]
  /\ UNCHANGED <<conversation_messages, conversation_chunks, indexing_queue,
                 running, call, used_uuids, pre_call, now, retrieval, maint>>

(***************************************************************************)
(* ConversationRetriever.                                                  *)
(***************************************************************************)
\* n letters
Letters(n) == [i \in 1..n |-> "a"]

\* the inputs of the retrieval model: a one-chunk text and a text of 12
\* letters, which is cut into four chunks; with and without a deal
RContents == { <<"a", "a">>, Letters(12) }
RDealIds == {None, "d1"}
RSenderTypes == {"customer", "bot"}
ContextTypes == {"general"}
\* the vectors the embedding API may answer a query with: the direction of
\* the stored chunks, and one at 45 degrees to it (similarity 0.707)
QueryVectors ==
  ApiVectors \cup { [i \in 1..embedding_dimension |-> IF i <= 2 THEN 1 ELSE 0] }
QueryOutcomes == QueryVectors \cup {ApiError}

\* the thresholds of ConversationRetriever.__init__, in hundredths
high_similarity_threshold == 75
default_similarity_threshold == 60
low_similarity_threshold == 40
\* max_per_type = 3 in _build_context_summary
max_per_type == 3

\* _extract_intent on the modelled alphabet: no keyword occurs in a query,
\* so the default is returned (the function never returns None)
_extract_intent(query) == "general_inquiry"

\* _extract_category on the modelled alphabet: no product keyword occurs, so
\* the category of the context type is returned
_extract_category(query, context_type) ==
  IF context_type = "product_search" THEN "product_inquiry"
  ELSE IF context_type = "order_process" THEN "order_management"
  ELSE IF context_type = "support" THEN "customer_support"
  ELSE "general_conversation"

\* one call of store.search_similar_messages made by the retriever: the
\* result list (empty when the store fails), and the entry of the history
Scan(tier, f, threshold_pct, max_results, api, io_error) ==
  LET results == IF io_error THEN <<>>
                 ELSE SearchResults(conversation_messages, conversation_chunks,
                                    _get_embedding(api), f, now,
                                    threshold_pct, max_results)
  IN [results |-> results,
      log |-> [tier |-> tier, filter |-> f, threshold |-> threshold_pct,
               max_results |-> max_results, found |-> Len(results),
               error |-> io_error]]

\* _search_by_deal: one scan restricted to the customer and the deal
_search_by_deal(customer_id, deal_id, api, io_error) ==
  LET scan == Scan("narrow", ScanFilter(customer_id, deal_id, None, None, 30),
                   high_similarity_threshold, max_results_per_search,
                   api, io_error)
  IN [results |-> scan.results, scans |-> <<scan.log>>]

\* _search_by_customer: one scan restricted to the customer; the results of
\* the deal given as exclude_deal_id are then dropped
_search_by_customer(customer_id, exclude_deal_id, api, io_error) ==
  LET scan == Scan("owner", ScanFilter(customer_id, None, None, None, 60),
                   default_similarity_threshold, max_results_per_search,
                   api, io_error)
      Other(r) == r.deal_id # exclude_deal_id
  IN [results |-> IF exclude_deal_id # None
                  THEN SelectSeq(scan.results, Other) ELSE scan.results,
      scans |-> <<scan.log>>]

\* _search_by_intent_category: a scan by intent, a scan by category when it
\* differs from the intent, and an unscoped scan if both found nothing
_search_by_intent_category(intent, category, apis, io_errors) ==
  LET half == max_results_per_search \div 2
      by_intent == Scan("fallback", ScanFilter(None, None, intent, None, 90),
                        low_similarity_threshold, half, apis[1], io_errors[1])
      by_category == Scan("fallback", ScanFilter(None, None, None, category, 90),
                          low_similarity_threshold, half, apis[2], io_errors[2])
      unscoped == Scan("fallback", ScanFilter(None, None, None, None, 30),
                       low_similarity_threshold, FallbackCap, apis[3], io_errors[3])
      r1 == IF intent # None THEN by_intent.results ELSE <<>>
      s1 == IF intent # None THEN <<by_intent.log>> ELSE <<>>
      second == category # None /\ category # intent
      r2 == IF second THEN r1 \o by_category.results ELSE r1
      s2 == IF second THEN Append(s1, by_category.log) ELSE s1
  IN IF r2 = <<>>
     THEN [results |-> unscoped.results, scans |-> Append(s2, unscoped.log)]
     ELSE [results |-> r2, scans |-> s2]

\* what get_relevant_context does with the result of a tier: a non-empty
\* result is added to context_fragments and counted in search_metadata
AfterTier(fr, tier, found, threshold_pct) ==
  [fr EXCEPT
     !.context_fragments = IF found.results # <<>> THEN @ \o found.results ELSE @,
     !.searches_performed = IF found.results # <<>> THEN @ + 1 ELSE @,
     !.total_fragments_found = IF found.results # <<>>
                               THEN @ + Len(found.results) ELSE @,
     !.similarity_thresholds_used = IF found.results # <<>>
                                    THEN Append(@, threshold_pct) ELSE @,
     !.scans = @ \o found.scans,
     !.executed = Append(@, [tier |-> tier, produced |-> Len(found.results)])]

\* the loop of _deduplicate_fragments: a fragment is kept unless a fragment
\* with the same (message_id, chunk_index) was kept before it
RECURSIVE UniqueLoop(_)
UniqueLoop(fragments) ==
  IF fragments = <<>> THEN <<>>
  ELSE LET fragment == fragments[Len(fragments)]
           unique == UniqueLoop(SubSeq(fragments, 1, Len(fragments) - 1))
           seen == {<<unique[i].message_id, unique[i].chunk_index>> :
                      i \in 1..Len(unique)}
       IN IF <<fragment.message_id, fragment.chunk_index>> \in seen
          THEN unique ELSE Append(unique, fragment)

\* every fragment kept, duplicates included
_deduplicate_fragments_KeepAll(fragments) == fragments
\* ConversationRetriever._deduplicate_fragments
_deduplicate_fragments(fragments) == UniqueLoop(fragments)

\* sorted(unique_fragments, key=similarity, reverse=True)
SortFragments(fragments) == SortBySimilarity(fragments)

\* sep.join(parts)
RECURSIVE Join(_, _)
Join(parts, sep) ==
  IF parts = <<>> THEN <<>>
  ELSE IF Len(parts) = 1 THEN parts[1]
  ELSE parts[1] \o sep \o Join(Tail(parts), sep)

\* the three headings of the summary, letter for letter: "Предыдущие вопросы
\* клиента: ", "Предыдущие ответы консультанта: ", "Комментарии менеджера: "
CustomerHeading ==
  Letters(10) \o <<" ">> \o Letters(7) \o <<" ">> \o Letters(7) \o <<":", " ">>
BotHeading ==
  Letters(10) \o <<" ">> \o Letters(6) \o <<" ">> \o Letters(12) \o <<":", " ">>
ManagerHeading ==
  Letters(11) \o <<" ">> \o Letters(9) \o <<":", " ">>

\* fragment['content'][:200] + "..." if it is longer than 200, else as it is
Shown(content) ==
  IF Len(content) > fragment_cut
  THEN SubSeq(content, 1, fragment_cut) \o <<".", ".", ".">>
  ELSE content

\* full_summary of _build_context_summary before the length check: per
\* sender type the heading and the first max_per_type fragments joined by
\* "; ", the parts joined by a newline
FullSummary(fragments) ==
  LET Of(sender_type) ==
        LET Mine(f) == f.sender_type = sender_type
            mine == SelectSeq(fragments, Mine)
        IN [i \in 1..Len(mine) |-> Shown(mine[i].content)]
      Part(heading, messages) ==
        IF messages = <<>> THEN <<>>
        ELSE << heading \o Join(SubSeq(messages, 1,
                                  IF Len(messages) < max_per_type
                                  THEN Len(messages) ELSE max_per_type),
                                <<";", " ">>) >>
      summary_parts == Part(CustomerHeading, Of("customer"))
                       \o Part(BotHeading, Of("bot"))
                       \o Part(ManagerHeading, Of("manager"))
  IN Join(summary_parts, <<"\n">>)

\* ConversationRetriever._build_context_summary: "" for no fragments; the
\* summary, cut to max_context_length characters plus "..." when longer
_build_context_summary(fragments) ==
  IF fragments = <<>> THEN <<>>
  ELSE LET full_summary == FullSummary(fragments)
       IN IF Len(full_summary) > max_context_length
          THEN SubSeq(full_summary, 1, max_context_length) \o <<".", ".", ".">>
          ELSE full_summary

\* "if len(context_fragments) < 5": the third tier is run
NeedsFallback(context_fragments) == Len(context_fragments) < EnoughFragments

\* get_relevant_context up to the end of tier 1: context_fragments and
\* search_metadata are created and, if a deal_id is given, _search_by_deal
\* is run. No call on the way suspends: the task keeps the loop to the end.
get_relevant_context(c) ==
  /\ pc[c] = "idle"
  /\ running = None
  /\ \E customer_id \in Customers, deal_id \in RDealIds,
        context_type \in ContextTypes, api \in QueryOutcomes,
        io_error \in BOOLEAN :
       LET fr == [NoRetrieval EXCEPT !.customer_id = customer_id,
                    !.deal_id = deal_id, !.context_type = context_type]
       IN retrieval' =
            IF deal_id # None
            THEN AfterTier(fr, "narrow",
                           _search_by_deal(customer_id, deal_id, api, io_error),
                           high_similarity_threshold)
            ELSE fr
  /\ call' = [call EXCEPT ![c] = [NoCall EXCEPT !.op = "context"]]
  /\ pc' = [pc EXCEPT ![c] = "owner_tier"]
  /\ running' = c
  /\ UNCHANGED <<conversation_messages, conversation_chunks, indexing_queue,
                 is_processing, used_uuids, pre_call, now, maint>>

\* tier 2 of get_relevant_context: _search_by_customer, always
OwnerTier(c) ==
  /\ pc[c] = "owner_tier"
  /\ running = c
  /\ \E api \in QueryOutcomes, io_error \in BOOLEAN :
       retrieval' = AfterTier(retrieval, "owner",
                              _search_by_customer(retrieval.customer_id,
                                                  retrieval.deal_id,
                                                  api, io_error),
                              default_similarity_threshold)
  /\ pc' = [pc EXCEPT ![c] = "fallback_tier"]
  /\ UNCHANGED <<conversation_messages, conversation_chunks, indexing_queue,
                 is_processing, running, call, used_uuids, pre_call, now, maint>>

\* tier 3 of get_relevant_context: _search_by_intent_category, when fewer
\* than five fragments have been collected
FallbackTier(c) ==
  /\ pc[c] = "fallback_tier"
  /\ running = c
  /\ IF NeedsFallback(retrieval.context_fragments)
     THEN \E apis \in [1..3 -> QueryOutcomes], io_errors \in [1..3 -> BOOLEAN] :
            retrieval' =
              AfterTier(retrieval, "fallback",
                        _search_by_intent_category(
                          _extract_intent(<<>>),
                          _extract_category(<<>>, retrieval.context_type),
                          apis, io_errors),
                        low_similarity_threshold)
     ELSE UNCHANGED retrieval
  /\ pc' = [pc EXCEPT ![c] = "assemble"]
  /\ UNCHANGED <<conversation_messages, conversation_chunks, indexing_queue,
                 is_processing, running, call, used_uuids, pre_call, now, maint>>

\* the end of get_relevant_context: duplicates removed, fragments sorted, the
\* summary built, the result returned
BuildContext(c) ==
  /\ pc[c] = "assemble"
  /\ running = c
  /\ LET unique_fragments == _deduplicate_fragments(retrieval.context_fragments)
         sorted_fragments == SortFragments(unique_fragments)
     IN retrieval' =
          [retrieval EXCEPT
             !.context_summary = _build_context_summary(sorted_fragments),
             !.uncut_summary = FullSummary(sorted_fragments),
             !.raw_fragments = Limit(sorted_fragments, RawFragmentsCap),
             !.total_relevant_fragments = Len(sorted_fragments)]
  /\ pc' = [pc EXCEPT ![c] = "returned"]
  /\ UNCHANGED <<conversation_messages, conversation_chunks, indexing_queue,
                 is_processing, running, call, used_uuids, pre_call, now, maint>>

\* the values of 'max_context_length' a caller configures
ConfiguredCaps == {max_context_length - 8, max_context_length}

\* ConversationRAGManager.update_config with a new 'max_context_length': the
\* config dict is updated; of the components only the retriever's
\* default_similarity_threshold is ever written, so the retriever keeps the
\* max_context_length it was built with. A plain method: it runs at once.
update_config(c) ==
  /\ pc[c] = "idle"
  /\ running = None
  /\ \E cap \in ConfiguredCaps :
       /\ cap # maint.config_max_context_length
       /\ maint' = [maint EXCEPT !.config_max_context_length = cap]
  /\ UNCHANGED <<conversation_messages, conversation_chunks, indexing_queue,
                 is_processing, running, pc, call, used_uuids, pre_call, now,
                 retrieval>>

\* the chunk loop of the retrieval model: the embedding API answers every
\* call, with one of two directions (a chunk whose call failed carries the
\* zero vector, has similarity 0 and is returned by no scan of the
\* retriever: for retrieval it is an absent chunk)
StoreChunkEmbedded(t) == StoreChunkWith(t, QueryVectors)

\* index_message_sync with the arguments of the retrieval model
index_message_sync_scoped(c) ==
  /\ index_message_sync_with(c, RSenderTypes, RContents, RDealIds, SuppliedIds)
  /\ UNCHANGED <<pre_call, now, retrieval, maint>>

(***************************************************************************)
(* cleanup_old_messages, get_stats and the scheduler of the manager.       *)
(***************************************************************************)
\* the hour of the daily cleanup: "if current_hour == 1"
cleanup_hour == 1
\* config['batch_reindex_hour'] (2 in the source): the last hour of the day
batch_reindex_hour == HoursPerDay - 1

\* the old records go, their chunks stay
CleanedTables_KeepChunks(messages, chunk_rows, clock, days_to_keep) ==
  LET cutoff_date == clock - days_to_keep
      Kept(m) == ~(m.timestamp < cutoff_date)
      kept_messages == SelectSeq(messages, Kept)
  IN [messages |-> kept_messages,
      chunks |-> chunk_rows,
      messages_deleted |-> Len(messages) - Len(kept_messages)]

\* one old record goes per run, with its chunks
CleanedTables_OneRecord(messages, chunk_rows, clock, days_to_keep) ==
  LET cutoff_date == clock - days_to_keep
      old == {i \in 1..Len(messages) : messages[i].timestamp < cutoff_date}
  IN IF old = {}
     THEN [messages |-> messages, chunks |-> chunk_rows, messages_deleted |-> 0]
     ELSE LET first == CHOOSE i \in old : \A j \in old : i <= j
              NotFirst(r) == r.message_id # messages[first].message_id
          IN [messages |-> SelectSeq(messages, NotFirst),
              chunks |-> SelectSeq(chunk_rows, NotFirst),
              messages_deleted |-> 1]

\* the two DELETEs of cleanup_old_messages, one transaction: the chunks
\* whose message_id is that of a record with timestamp < cutoff_date, then
\* those records
CleanedTables(messages, chunk_rows, clock, days_to_keep) ==
  LET cutoff_date == clock - days_to_keep
      Kept(m) == ~(m.timestamp < cutoff_date)
      old_ids == {messages[i].message_id :
                    i \in {j \in 1..Len(messages) : messages[j].timestamp < cutoff_date}}
      NotOfOld(r) == r.message_id \notin old_ids
      kept_messages == SelectSeq(messages, Kept)
  IN [messages |-> kept_messages,
      chunks |-> SelectSeq(chunk_rows, NotOfOld),
      messages_deleted |-> Len(messages) - Len(kept_messages)]

\* what the except branch of cleanup_old_messages returns
cleanup_on_error == 0
\* what the except branch of get_stats returns: {}
stats_on_error == <<>>

\* the dict get_stats returns (the counts of the two tables and the owners)
StatsOf(messages, chunk_rows) ==
  [total_messages |-> Len(messages),
   total_chunks |-> Len(chunk_rows),
   unique_customers |->
     Cardinality({messages[i].customer_id : i \in 1..Len(messages)})]

\* cleanup_old_messages called by a caller (manual_cleanup passes
\* config['cleanup_days']): on a storage error the transaction is rolled
\* back, the error is logged and 0 is returned
cleanup_old_messages(c) ==
  /\ pc[c] = "idle"
  /\ running = None
  /\ \E io_error \in BOOLEAN :
       LET cleaned == CleanedTables(conversation_messages, conversation_chunks,
                                    now, cleanup_days)
       IN IF io_error
          THEN /\ call' = [call EXCEPT ![c] =
                             [NoCall EXCEPT !.op = "cleanup", !.error = TRUE,
                                            !.deleted = cleanup_on_error]]
               /\ UNCHANGED <<conversation_messages, conversation_chunks>>
          ELSE /\ call' = [call EXCEPT ![c] =
                             [NoCall EXCEPT !.op = "cleanup",
                                            !.deleted = cleaned.messages_deleted]]
               /\ conversation_messages' = cleaned.messages
               /\ conversation_chunks' = cleaned.chunks
  /\ pc' = [pc EXCEPT ![c] = "returned"]
  /\ running' = c
  /\ UNCHANGED <<indexing_queue, is_processing, used_uuids, pre_call, now,
                 retrieval, maint>>

\* cleanup_old_messages called once more by the caller that has just called
\* it, before anything else runs: the same clock, the same cutoff
cleanup_old_messages_again(c) ==
  /\ pc[c] = "returned"
  /\ running = c
  /\ call[c].op = "cleanup"
  /\ ~call[c].repeated
  /\ \E io_error \in BOOLEAN :
       LET cleaned == CleanedTables(conversation_messages, conversation_chunks,
                                    now, cleanup_days)
       IN IF io_error
          THEN /\ call' = [call EXCEPT ![c].repeated = TRUE,
                                       ![c].again_error = TRUE,
                                       ![c].again_deleted = cleanup_on_error]
               /\ UNCHANGED <<conversation_messages, conversation_chunks>>
          ELSE /\ call' = [call EXCEPT ![c].repeated = TRUE,
                                       ![c].again_deleted = cleaned.messages_deleted]
               /\ conversation_messages' = cleaned.messages
               /\ conversation_chunks' = cleaned.chunks
  /\ UNCHANGED <<indexing_queue, is_processing, running, pc, used_uuids,
                 pre_call, now, retrieval, maint>>

\* get_stats: the counts are read; on a storage error {} is returned
get_stats(c) ==
  /\ pc[c] = "idle"
  /\ running = None
  /\ \E io_error \in BOOLEAN :
       call' = [call EXCEPT ![c] =
                  [NoCall EXCEPT !.op = "stats", !.error = io_error,
                     !.stats = IF io_error THEN stats_on_error
                               ELSE StatsOf(conversation_messages,
                                            conversation_chunks)]]
  /\ pc' = [pc EXCEPT ![c] = "returned"]
  /\ running' = c
  /\ UNCHANGED <<conversation_messages, conversation_chunks, indexing_queue,
                 is_processing, used_uuids, pre_call, now, retrieval, maint>>

\* start_scheduler that creates a loop task whether or not one is running
start_scheduler_Always(c) ==
  /\ pc[c] = "idle"
  /\ running = None
  /\ maint' = [maint EXCEPT !.is_scheduler_running = TRUE,
                            !.scheduler_task = "ready"]
  /\ call' = [call EXCEPT ![c] = [NoCall EXCEPT !.op = "start"]]
  /\ pc' = [pc EXCEPT ![c] = "returned"]
  /\ running' = c
  /\ UNCHANGED <<conversation_messages, conversation_chunks, indexing_queue,
                 is_processing, used_uuids, pre_call, now, retrieval>>

\* start_scheduler: it returns at once if is_scheduler_running is set, else
\* it sets the flag and creates the task of _scheduler_loop, which has not
\* run yet
start_scheduler(c) ==
  /\ pc[c] = "idle"
  /\ running = None
  /\ maint' = IF maint.is_scheduler_running THEN maint
              ELSE [maint EXCEPT !.is_scheduler_running = TRUE,
                                 !.scheduler_task = "ready"]
  /\ call' = [call EXCEPT ![c] = [NoCall EXCEPT !.op = "start"]]
  /\ pc' = [pc EXCEPT ![c] = "returned"]
  /\ running' = c
  /\ UNCHANGED <<conversation_messages, conversation_chunks, indexing_queue,
                 is_processing, used_uuids, pre_call, now, retrieval>>

\* stop_scheduler up to "await self.scheduler_task": it returns at once if
\* the flag is clear; else it clears the flag and cancels the task. A task
\* that has ended already is awaited without a suspension; for a live one
\* the caller is suspended until the task has taken the cancellation.
stop_scheduler(c) ==
  /\ pc[c] = "idle"
  /\ running = None
  /\ call' = [call EXCEPT ![c] = [NoCall EXCEPT !.op = "stop"]]
  /\ IF ~maint.is_scheduler_running
     THEN /\ UNCHANGED maint
          /\ pc' = [pc EXCEPT ![c] = "returned"]
          /\ running' = c
     ELSE IF maint.scheduler_task \in {"none", "done"}
     THEN /\ maint' = [maint EXCEPT !.is_scheduler_running = FALSE]
          /\ pc' = [pc EXCEPT ![c] = "returned"]
          /\ running' = c
     ELSE /\ maint' = [maint EXCEPT !.is_scheduler_running = FALSE,
                                    !.scheduler_task = "cancelling"]
          /\ pc' = [pc EXCEPT ![c] = "stopping"]
          /\ UNCHANGED running
  /\ UNCHANGED <<conversation_messages, conversation_chunks, indexing_queue,
                 is_processing, used_uuids, pre_call, now, retrieval>>

\* the cancelled task of _scheduler_loop gets the loop: CancelledError is
\* raised at its sleep and caught by "except asyncio.CancelledError" (or the
\* task is cancelled before its first step), and the task ends
SchedulerCancelled ==
  /\ maint.scheduler_task = "cancelling"
  /\ running = None
  /\ maint' = [maint EXCEPT !.scheduler_task = "done"]
  /\ UNCHANGED <<conversation_messages, conversation_chunks, indexing_queue,
                 is_processing, running, pc, call, used_uuids, pre_call, now,
                 retrieval>>

\* stop_scheduler after its await: the awaited task has ended
stop_scheduler_resumes(c) ==
  /\ pc[c] = "stopping"
  /\ running = None
  /\ maint.scheduler_task = "done"
  /\ pc' = [pc EXCEPT ![c] = "returned"]
  /\ running' = c
  /\ UNCHANGED <<conversation_messages, conversation_chunks, indexing_queue,
                 is_processing, call, used_uuids, pre_call, now, retrieval,
                 maint>>

\* the loop of _scheduler_loop is left by an exception raised in a turn
\* ("except Exception": the error is logged) or by a CancelledError that
\* stop_scheduler did not send: the coroutine returns, the task ends, and
\* no handler touches is_scheduler_running
SchedulerLoopEnds ==
  /\ maint.scheduler_task = "ready"
  /\ running = None
  /\ maint' = [maint EXCEPT !.scheduler_task = "done"]
  /\ UNCHANGED <<conversation_messages, conversation_chunks, indexing_queue,
                 is_processing, running, pc, call, used_uuids, pre_call, now,
                 retrieval>>

\* "not last or datetime.now().date() > date of last": not yet done today
DueToday(last, today) == last = NoDate \/ today > last

\* ConversationIndexer.batch_reindex: logs, builds a dict of zero counts and
\* returns it; it reads no table and puts nothing on the queue
batch_reindex(queue) == queue

\* one turn of the loop of _scheduler_loop, from the reading of the hour to
\* asyncio.sleep(3600): _daily_cleanup at the cleanup hour, _daily_reindex at
\* the reindex hour, each once a day. Neither suspends, so the turn is one
\* step.
SchedulerTurn ==
  /\ maint.scheduler_task = "ready"
  /\ running = None
  /\ LET current_hour == maint.hour
         cleans == current_hour = cleanup_hour /\ DueToday(maint.last_cleanup, now)
         reindexes == /\ current_hour = batch_reindex_hour
                      /\ DueToday(maint.last_batch_reindex, now)
         cleaned == CleanedTables(conversation_messages, conversation_chunks,
                                  now, cleanup_days)
     IN /\ IF cleans
           THEN \E io_error \in BOOLEAN :
                  IF io_error
                  THEN UNCHANGED <<conversation_messages, conversation_chunks>>
                  ELSE /\ conversation_messages' = cleaned.messages
                       /\ conversation_chunks' = cleaned.chunks
           ELSE UNCHANGED <<conversation_messages, conversation_chunks>>
        /\ indexing_queue' = IF reindexes THEN batch_reindex(indexing_queue)
                             ELSE indexing_queue
        /\ maint' = [maint EXCEPT
                       !.scheduler_task = "sleeping",
                       !.last_cleanup = IF cleans THEN now ELSE @,
                       !.last_batch_reindex = IF reindexes THEN now ELSE @]
  /\ UNCHANGED <<is_processing, running, pc, call, used_uuids, pre_call, now,
                 retrieval>>

\* an hour passes while no task holds the loop: the clock moves on and the
\* sleep of the scheduler ends
HourPasses ==
  /\ running = None
  /\ ~(now = MaxDay /\ maint.hour = HoursPerDay - 1)
  /\ now' = IF maint.hour = HoursPerDay - 1 THEN now + 1 ELSE now
  /\ maint' = [maint EXCEPT
                 !.hour = (@ + 1) % HoursPerDay,
                 !.scheduler_task = IF @ = "sleeping" THEN "ready" ELSE @]
  /\ UNCHANGED <<conversation_messages, conversation_chunks, indexing_queue,
                 is_processing, running, pc, call, used_uuids, pre_call,
                 retrieval>>

\* index_message_sync with the arguments of the lifecycle model: a one-chunk
\* text under a caller-supplied id
index_message_sync_single(c) ==
  /\ index_message_sync_with(c, SenderTypes, { <<"a">> }, DealIds, SuppliedIds)
  /\ UNCHANGED <<pre_call, now, retrieval, maint>>

(***************************************************************************)
(* _split_into_chunks called on its own, one turn of its loop per step.    *)
(***************************************************************************)
\* _split_into_chunks(content, max_chunk_size, overlap) up to the loop: a
\* text of at most max_chunk_size characters is returned at once as the one
\* chunk [content]; else start = 0 and chunks = [].  The texts are those of
\* up to MaxSplitLen characters over letter, blank and full stop, the sizes a
\* positive max_chunk_size and an overlap from 0 up to it.
split_into_chunks_call(c) ==
  /\ pc[c] = "idle"
  /\ running = None
  /\ \E content \in UNION { [1..n -> {"a", " ", "."}] : n \in 0..MaxSplitLen },
        sizes \in { pair \in (1..MaxSplitSize) \X (0..MaxSplitSize) : pair[2] <= pair[1] } :
       LET frame == [NoCall EXCEPT !.op = "split", !.content = content,
                                   !.maxsz = sizes[1], !.ov = sizes[2]]
       IN IF Len(content) <= sizes[1]
          THEN /\ call' = [call EXCEPT ![c] = [frame EXCEPT !.chunks = <<content>>]]
               /\ pc' = [pc EXCEPT ![c] = "returned"]
          ELSE /\ call' = [call EXCEPT ![c] = frame]
               /\ pc' = [pc EXCEPT ![c] = "splitting"]
  /\ running' = c
  /\ UNCHANGED <<conversation_messages, conversation_chunks, indexing_queue,
                 is_processing, used_uuids, pre_call, now, retrieval, maint>>

\* the list comprehension and the return that follow the loop
SplitDone(frame, raw) == [frame EXCEPT !.raw = raw, !.chunks = StripNonEmpty(raw)]

\* one turn of "while start < len(content)": the loop ends when the test
\* fails or the turn breaks; else the turn's chunk is appended and start
\* is moved (the turns are followed up to MaxTurns of them)
SplitStep(c) ==
  /\ pc[c] = "splitting"
  /\ running = c
  /\ LET frame == call[c]
         turn == SplitTurn(frame.content, frame.start, frame.maxsz, frame.ov)
     IN IF ~(frame.start < Len(frame.content))
        THEN /\ call' = [call EXCEPT ![c] = SplitDone(frame, frame.raw)]
             /\ pc' = [pc EXCEPT ![c] = "returned"]
        ELSE /\ Len(frame.raw) < MaxTurns
             /\ IF turn.last
                THEN /\ call' = [call EXCEPT ![c] =
                                   SplitDone(frame, Append(frame.raw, turn.chunk))]
                     /\ pc' = [pc EXCEPT ![c] = "returned"]
                ELSE /\ call' = [call EXCEPT ![c] =
                                   [frame EXCEPT !.raw = Append(@, turn.chunk),
                                                 !.start = turn.start]]
                     /\ UNCHANGED pc
  /\ UNCHANGED <<conversation_messages, conversation_chunks, indexing_queue,
                 is_processing, running, used_uuids, pre_call, now, retrieval,
                 maint>>

Next ==
  \/ \E c \in Callers : index_message_async(c) /\ UNCHANGED pre_call
  \/ \E c \in Callers : index_message_sync_plain(c)
  \/ \E c \in Callers : search_similar_messages(c)
  \/ \E c \in Callers : CallerDone(c)
  \/ \E t \in Tasks : StoreChunk(t)
  \/ \E w \in Workers : WorkerStart(w)
  \/ \E w \in Workers : WorkerGet(w)
  \/ \E w \in Workers : WorkerStore(w)
  \/ \E w \in Workers : WorkerTaskDone(w)
  \/ \E w \in Workers : WorkerTimeout(w)
  \/ \E w \in Workers : WorkerExit(w)

Spec == Init /\ [][Next]_vars

\* the store driven by synchronous ingestion and retrieval alone, every
\* index_message_sync call audited
NextStore ==
  \/ \E c \in Callers : index_message_sync_audited(c)
  \/ \E t \in Tasks : StoreChunk(t)
  \/ \E c \in Callers : search_similar_messages(c)
  \/ \E c \in Callers : CallerDone(c)

SpecStore == Init /\ [][NextStore]_vars

\* the history after caller c has issued an ingest: its content is the last
\* one issued for its message_id
Issued(c) ==
  [pre_call EXCEPT !.issued =
     InsertOrReplace(@, [message_id |-> call'[c].message_id,
                         content |-> call'[c].content])]

\* both entry points of the indexer, with the order of the ingests kept
NextOrder ==
  \/ \E c \in Callers : index_message_async(c) /\ pre_call' = Issued(c)
  \/ \E c \in Callers :
       /\ index_message_sync(c)
       /\ pre_call' = Issued(c)
       /\ UNCHANGED <<now, retrieval, maint>>
  \/ \E c \in Callers : CallerDone(c)
  \/ \E t \in Tasks : StoreChunkWith(t, ApiVectors)
  \/ \E w \in Workers : WorkerStart(w)
  \/ \E w \in Workers : WorkerGet(w)
  \/ \E w \in Workers : WorkerStore(w)
  \/ \E w \in Workers : WorkerTaskDone(w)
  \/ \E w \in Workers : WorkerTimeout(w)
  \/ \E w \in Workers : WorkerExit(w)

SpecOrder == Init /\ [][NextOrder]_vars

\* the retriever over a store filled by synchronous ingestion
NextRetriever ==
  \/ \E c \in Callers : index_message_sync_scoped(c)
  \/ \E c \in Callers : update_config(c)
  \/ \E t \in Tasks : StoreChunkEmbedded(t)
  \/ \E c \in Callers : get_relevant_context(c)
  \/ \E c \in Callers : OwnerTier(c)
  \/ \E c \in Callers : FallbackTier(c)
  \/ \E c \in Callers : BuildContext(c)
  \/ \E c \in Callers : CallerDone(c)

SpecRetriever == Init /\ [][NextRetriever]_vars

\* the store, its maintenance operations and the scheduler, with a clock
NextLifecycle ==
  \/ \E c \in Callers : index_message_sync_single(c)
  \/ \E t \in Tasks : StoreChunk(t)
  \/ \E c \in Callers : search_similar_messages(c)
  \/ \E c \in Callers : cleanup_old_messages(c)
  \/ \E c \in Callers : get_stats(c)
  \/ \E c \in Callers : start_scheduler(c)
  \/ \E c \in Callers : stop_scheduler(c)
  \/ \E c \in Callers : stop_scheduler_resumes(c)
  \/ SchedulerCancelled
  \/ SchedulerLoopEnds
  \/ SchedulerTurn
  \/ HourPasses
  \/ \E c \in Callers : CallerDone(c)

SpecLifecycle == Init /\ [][NextLifecycle]_vars

\* _split_into_chunks on its own
NextSplit ==
  \/ \E c \in Callers : split_into_chunks_call(c)
  \/ \E c \in Callers : SplitStep(c)
  \/ \E c \in Callers : CallerDone(c)

SpecSplit == Init /\ [][NextSplit]_vars

(***************************************************************************)
(* _clean_content called on its own, and store_message on the same texts.  *)
(***************************************************************************)
\* the words of the texts: 'кв.', 'дом', 'я', 'Ива', 'ива', 'Кольцо'
CleanWords == { <<"k", "v", ".">>, <<"d", "o", "m">>, <<"y">>, <<"I", "v", "a">>, <<"i", "v", "a">>, <<"K", "o", "l", "j", "c", "o">> }

\* ' '.join(words)
RECURSIVE JoinWords(_)
JoinWords(words) ==
  IF words = <<>> THEN <<>>
  ELSE IF Len(words) = 1 THEN words[1]
  ELSE words[1] \o <<" ">> \o JoinWords(Tail(words))

\* the texts of up to MaxWords words
CleanTexts == { JoinWords(words) : words \in UNION { [1..n -> CleanWords] : n \in 0..MaxWords } }

\* _clean_content(content) for a text of the caller
clean_content_call(c) ==
  /\ pc[c] = "idle"
  /\ running = None
  /\ \E content \in CleanTexts :
       call' = [call EXCEPT ![c] =
                  [NoCall EXCEPT !.op = "clean", !.content = content,
                                 !.cleaned = <<_clean_content(content)>>]]
  /\ pc' = [pc EXCEPT ![c] = "returned"]
  /\ running' = c
  /\ UNCHANGED <<conversation_messages, conversation_chunks, indexing_queue,
                 is_processing, used_uuids, pre_call, now, retrieval, maint>>

\* _clean_content applied to the text it returned last
clean_content_again(c) ==
  /\ pc[c] = "returned"
  /\ running = c
  /\ call[c].op = "clean"
  /\ Len(call[c].cleaned) < MaxPasses
  /\ call' = [call EXCEPT ![c].cleaned =
                Append(@, _clean_content(@[Len(@)]))]
  /\ UNCHANGED <<conversation_messages, conversation_chunks, indexing_queue,
                 is_processing, running, pc, used_uuids, pre_call, now,
                 retrieval, maint>>

\* the sanitizer on its own
NextClean ==
  \/ \E c \in Callers : clean_content_call(c)
  \/ \E c \in Callers : clean_content_again(c)
  \/ \E c \in Callers : CallerDone(c)

SpecClean == Init /\ [][NextClean]_vars

\* the sanitizer in store_message: index_message_sync of a text under a
\* generated id, with an embedding API that answers every call
NextCleanStore ==
  \/ \E c \in Callers :
       /\ index_message_sync_with(c, SenderTypes, CleanTexts, DealIds, {NoId})
       /\ UNCHANGED <<pre_call, now, retrieval, maint>>
  \/ \E t \in Tasks : StoreChunkWith(t, ApiVectors)
  \/ \E c \in Callers : CallerDone(c)

SpecCleanStore == Init /\ [][NextCleanStore]_vars

\* index_message_sync with the arguments of the retention model: a text of
\* two chunks under one of two caller-supplied ids
index_message_sync_dated(c) ==
  /\ index_message_sync_with(c, SenderTypes, { <<"a", "a", ".", " ", "a", "a">> },
                             DealIds, { <<"m1">>, <<"m2">> })
  /\ UNCHANGED <<pre_call, now, retrieval, maint>>

\* a day passes while no task holds the loop: datetime.now() moves on
DayPasses ==
  /\ running = None
  /\ now < MaxDay
  /\ now' = now + 1
  /\ UNCHANGED <<conversation_messages, conversation_chunks, indexing_queue,
                 is_processing, running, pc, call, used_uuids, pre_call,
                 retrieval, maint>>

\* retention: records ingested on different days, cleanup and scans
NextRetention ==
  \/ \E c \in Callers : index_message_sync_dated(c)
  \/ \E t \in Tasks : StoreChunkWith(t, ApiVectors)
  \/ \E c \in Callers : cleanup_old_messages(c)
  \/ \E c \in Callers : cleanup_old_messages_again(c)
  \/ \E c \in Callers : search_similar_messages(c)
  \/ DayPasses
  \/ \E c \in Callers : CallerDone(c)

SpecRetention == Init /\ [][NextRetention]_vars

(***************************************************************************)
(* Ranking and filtering of search_similar_messages, and the product       *)
(* store's semantic_search.                                                *)
(***************************************************************************)
\* EmbeddingsManager.generate_embedding: the API's vector, [] on any exception
generate_embedding(api) == IF api = ApiError THEN <<>> ELSE api

\* the result list of semantic_search: the rows with similarity >= threshold,
\* sorted by similarity_score descending, the first `limit` of them (the
\* score is kept in the field similarity)
SemanticResults(products, query_embedding, threshold_pct, limit) ==
  LET scored == [i \in 1..Len(products) |->
                  [id |-> i,
                   similarity |-> cosine_similarity(query_embedding, products[i])]]
      Passes(r) == AtLeast(r.similarity, threshold_pct)
  IN Limit(SortBySimilarity(SelectSeq(scored, Passes)), limit)

\* EmbeddingsManager.semantic_search: [] when the query could not be
\* embedded or on any exception, else the ranked products.  The table
\* product_embeddings is given by the embedding_vector of its rows (up to
\* MaxProducts of them), the row number standing for product_id.
semantic_search(c) ==
  /\ pc[c] = "idle"
  /\ running = None
  /\ \E api \in QueryOutcomes,
        products \in UNION { [1..n -> QueryVectors] : n \in 0..MaxProducts },
        threshold \in {0, 60, 75}, limit \in {1, 2}, io_error \in BOOLEAN :
       LET query_embedding == generate_embedding(api) IN
       call' = [call EXCEPT ![c] =
                  [NoCall EXCEPT !.op = "semantic",
                     !.query_embedding = query_embedding,
                     !.products = products,
                     !.threshold = threshold,
                     !.max_results = limit,
                     !.error = io_error,
                     !.seen = IF query_embedding = <<>> \/ io_error THEN <<>>
                              ELSE SemanticResults(products, query_embedding,
                                                   threshold, limit)]]
  /\ pc' = [pc EXCEPT ![c] = "returned"]
  /\ running' = c
  /\ UNCHANGED <<conversation_messages, conversation_chunks, indexing_queue,
                 is_processing, used_uuids, pre_call, now, retrieval, maint>>

\* ranking: two records of two chunks; the embedding API answers with one of
\* two directions or fails; scans for the customer or for all
NextRank ==
  \/ \E c \in Callers : index_message_sync_dated(c)
  \/ \E t \in Tasks : StoreChunkWith(t, QueryOutcomes)
  \/ \E c \in Callers :
       search_similar_messages_with(c, QueryOutcomes,
         { ScanFilter(customer_id, None, None, None, NoDays) :
             customer_id \in Customers \cup {None} },
         {0, 60, 75}, {1, 2})
  \/ \E c \in Callers : semantic_search(c)
  \/ \E c \in Callers : CallerDone(c)

SpecRank == Init /\ [][NextRank]_vars

\* filtering: one-chunk records of two customers, with and without a deal,
\* ingested on different days; scans with every filter field absent or given
\* (days_back absent, 0 or 1)
NextFilter ==
  \/ \E c \in Callers :
       /\ index_message_sync_for(c, {"u1", "u2"}, {"customer"}, { <<"a", "a">> },
                                 {None, "d1"}, { <<"m1">>, <<"m2">> })
       /\ UNCHANGED <<pre_call, now, retrieval, maint>>
  \/ \E t \in Tasks : StoreChunkWith(t, ApiVectors)
  \/ \E c \in Callers :
       search_similar_messages_with(c, ApiVectors,
         { ScanFilter(customer_id, deal_id, intent, category, days_back) :
             customer_id \in {None, "u1"}, deal_id \in {None, "d1"},
             intent \in {None, "general_inquiry"},
             category \in {None, "customer_inquiry"},
             days_back \in {NoDays, 0, 1} },
         {60}, {10})
  \/ DayPasses
  \/ \E c \in Callers : CallerDone(c)

SpecFilter == Init /\ [][NextFilter]_vars

\* the message ids of the two-record model
PairIds == { <<"m1">>, <<"m2">> }

\* index_message_sync with the arguments of the two-record model: one-chunk
\* texts of a customer, with and without a deal
index_message_sync_pair(c) ==
  /\ index_message_sync_with(c, {"customer"}, { <<"a", "a">> }, RDealIds, PairIds)
  /\ UNCHANGED <<pre_call, now, retrieval, maint>>

\* the retriever over a store of up to two records
NextCascade ==
  \/ \E c \in Callers : index_message_sync_pair(c)
  \/ \E t \in Tasks : StoreChunkEmbedded(t)
  \/ \E c \in Callers : get_relevant_context(c)
  \/ \E c \in Callers : search_similar_messages(c)
  \/ \E c \in Callers : OwnerTier(c)
  \/ \E c \in Callers : FallbackTier(c)
  \/ \E c \in Callers : BuildContext(c)
  \/ \E c \in Callers : CallerDone(c)

SpecCascade == Init /\ [][NextCascade]_vars


(***************************************************************************)
(* Views used by the properties.                                           *)
(***************************************************************************)
\* the chunk rows of one message as <<chunk_index, content>> pairs
ChunkView(rows, message_id) ==
  LET mine == RowsOf(rows, message_id)
  IN [i \in 1..Len(mine) |-> <<mine[i].chunk_index, mine[i].content>>]

\* the pairs store_message writes for a chunk list: enumerate() numbers every
\* chunk, blank chunks are not written
ExpectedView(chunks) ==
  LET tagged == [i \in 1..Len(chunks) |-> <<i - 1, chunks[i]>>]
      NotBlank(p) == Strip(p[2]) # <<>>
  IN SelectSeq(tagged, NotBlank)

IsPrefix(a, b) == Len(a) <= Len(b) /\ a = SubSeq(b, 1, Len(a))

SyncReturned(c) == pc[c] = "returned" /\ call[c].op = "sync"
AsyncReturned(c) == pc[c] = "returned" /\ call[c].op = "async"
SearchReturned(c) == pc[c] = "returned" /\ call[c].op = "search"

\* the worker tasks that are inside the processing loop
InLoop == {w \in Workers :
             pc[w] \in {"loop", "waiting", "got", "chunks", "stored", "timedout"}}

(***************************************************************************)
(* Properties.                                                             *)
(***************************************************************************)
\* C1: a store_message call for an id that has chunks, if it fails (returns
\* False), leaves both tables exactly as the call found them: the old record
\* row and the old chunks are still there and no new chunk is.
C1_FailedUpsertLeavesStoreUnchanged ==
  \A c \in Callers :
    ( /\ SyncReturned(c) /\ call[c].success = "false"
      /\ RowsOf(pre_call.chunks, call[c].message_id) # <<>> ) =>
      /\ conversation_messages = pre_call.messages
      /\ conversation_chunks = pre_call.chunks

\* C2: when store_message returns True, the chunk rows of its message_id are
\* exactly the chunks of this call, numbered 0..N-1 in order; no row of an
\* earlier ingest of the id is left.
C2_UpsertReplacesChunks ==
  \A c \in Callers :
    (SyncReturned(c) /\ call[c].success = "true") =>
      ChunkView(conversation_chunks, call[c].message_id) =
        ExpectedView(_split_into_chunks(_clean_content(call[c].content),
                                        max_chunk_size, overlap))

\* a successful re-ingest of an id whose earlier ingest left another number
\* of chunks
C2_Witness ==
  \E c \in Callers :
    /\ SyncReturned(c) /\ call[c].success = "true"
    /\ Len(RowsOf(pre_call.chunks, call[c].message_id)) > 0
    /\ Len(RowsOf(conversation_chunks, call[c].message_id)) > 0
    /\ Len(RowsOf(pre_call.chunks, call[c].message_id)) #
         Len(RowsOf(conversation_chunks, call[c].message_id))

C4_UpsertsDoNotInterleave ==
  /\ Cardinality({t \in Tasks : pc[t] = "chunks"}) <= 1
  /\ \A i \in 1..Len(conversation_messages) :
       LET cm == conversation_messages[i] IN
       IsPrefix(ChunkView(conversation_chunks, cm.message_id),
                ExpectedView(_split_into_chunks(cm.cleaned_content,
                                                max_chunk_size, overlap)))

\* index_message_sync has stored a record while the worker holds a queued
\* record of the same id with another text, which it stores next
C4_Witness ==
  \E c \in Callers, w \in Workers :
    /\ SyncReturned(c) /\ call[c].success = "true"
    /\ pc[w] = "got"
    /\ call[w].message_id = call[c].message_id
    /\ call[w].content # call[c].content

\* C5: a record never waits in the queue while no worker task exists (none
\* created, none in the loop), so every queued record reaches store_message
\* without another enqueue.
C5_QueuedRecordHasWorker ==
  indexing_queue # <<>> => \E w \in Workers : pc[w] # "none"

\* C6: the queue is bounded: its depth stays within a capacity at which
\* index_message_async blocks (some capacity below the depth the producers
\* try to reach).
C6_DepthWithinCapacity ==
  \E capacity \in 1..(MaxQueue - 1) : Len(indexing_queue) <= capacity

\* C7: is_processing goes from True to False only when the queue is empty.
C7_WorkerStopsOnEmptyQueue ==
  [][(is_processing /\ ~is_processing') => indexing_queue = <<>>]_vars

\* C8: at most one worker task is inside the processing loop, however many
\* tasks were created, and at most one of them is storing a record.
C8_AtMostOneWorkerInLoop ==
  /\ Cardinality(InLoop) <= 1
  /\ Cardinality({w \in Workers : pc[w] = "chunks"}) <= 1

\* one worker is in the loop while a second created task has not run yet
C8_Witness ==
  \E w1 \in Workers, w2 \in Workers :
    /\ w1 \in InLoop
    /\ pc[w2] = "created"

\* C9: when index_message_async returns, the id it returns is the supplied
\* id, or a generated one that starts with the customer id; the record is in
\* the queue under that id (so store_message has not run for it); and a
\* worker that has stored a record stored it under the id of the queue entry.
C9_AsyncReturnsQueuedId ==
  /\ \A c \in Callers : AsyncReturned(c) =>
       /\ call[c].arg_id # NoId => call[c].message_id = call[c].arg_id
       /\ call[c].arg_id = NoId => call[c].message_id[1] = call[c].customer_id
       /\ indexing_queue # <<>>
       /\ indexing_queue[Len(indexing_queue)].message_id = call[c].message_id
       /\ indexing_queue[Len(indexing_queue)].content = call[c].content
  /\ \A w \in Workers : (pc[w] = "stored" /\ call[w].success = "true") =>
       \E i \in 1..Len(conversation_messages) :
         /\ conversation_messages[i].message_id = call[w].message_id
         /\ conversation_messages[i].content = call[w].content

\* an enqueue with a generated id has returned while the worker, which has
\* stored an earlier record, is suspended on the queue
C9_Witness ==
  \E c \in Callers, w \in Workers :
    /\ AsyncReturned(c) /\ call[c].arg_id = NoId
    /\ pc[w] = "waiting"
    /\ conversation_messages # <<>>

\* C10: index_message_sync returns its id only when the record and all of
\* its chunks are persisted with a vector from the embedding service: not
\* after a storage error, not after a failed embedding call.
C10_SyncReturnMeansPersisted ==
  \A c \in Callers : SyncReturned(c) =>
    /\ call[c].success = "true"
    /\ call[c].zero_vectors = 0
    /\ ChunkView(conversation_chunks, call[c].message_id) =
         ExpectedView(_split_into_chunks(_clean_content(call[c].content),
                                         max_chunk_size, overlap))

\* the chunk rows of a message that carry the all-zero vector
ZeroRows(rows, message_id) ==
  LET IsZero(r) == r.message_id = message_id /\ r.embedding = ZeroVector
  IN SelectSeq(rows, IsZero)

\* C12: an embedding call that fails during asynchronous ingestion does not
\* fail the ingestion: every stored chunk row carries a vector of the fixed
\* dimension, and when the worker's store_message has returned True the
\* record row and all of its chunks are stored, exactly the chunks whose
\* embedding call failed carry the all-zero vector, and the worker is still
\* in its loop with is_processing set, about to take the next record.
C12_EmbeddingFailureStoresZeroVector ==
  /\ \A i \in 1..Len(conversation_chunks) :
       Len(conversation_chunks[i].embedding) = embedding_dimension
  /\ \A w \in Workers :
       (pc[w] = "stored" /\ call[w].success = "true") =>
         /\ \E i \in 1..Len(conversation_messages) :
              conversation_messages[i].message_id = call[w].message_id
         /\ ChunkView(conversation_chunks, call[w].message_id) =
              ExpectedView(_split_into_chunks(_clean_content(call[w].content),
                                              max_chunk_size, overlap))
         /\ Len(ZeroRows(conversation_chunks, call[w].message_id)) =
              call[w].zero_vectors
         /\ w \in InLoop
         /\ is_processing

\* the worker has stored a two-chunk record, an embedding call of which
\* failed, while the next record waits in the queue
C12_Witness ==
  \E w \in Workers :
    /\ pc[w] = "stored" /\ call[w].success = "true"
    /\ call[w].zero_vectors > 0
    /\ Len(RowsOf(conversation_chunks, call[w].message_id)) >= 2
    /\ indexing_queue # <<>>

\* get_relevant_context has returned its result to a caller
ContextReturned == \E c \in Callers : pc[c] = "returned" /\ call[c].op = "context"

\* the number of fragments the first n executed tiers produced
RECURSIVE Produced(_, _)
Produced(executed, n) ==
  IF n = 0 THEN 0 ELSE Produced(executed, n - 1) + executed[n].produced

\* the names of the tiers that were executed, in order
TiersRun(executed) == [i \in 1..Len(executed) |-> executed[i].tier]

\* C14: the tiers run in the order narrow, owner-wide, fallback and the
\* cascade stops as soon as enough fragments have been collected: a tier is
\* only executed while the tiers before it produced fewer than
\* EnoughFragments fragments.
C14_CascadeStopsWhenEnough ==
  ContextReturned =>
    /\ TiersRun(retrieval.executed) \in
         { <<"narrow">>, <<"narrow", "owner">>, <<"narrow", "owner", "fallback">>,
           <<"owner">>, <<"owner", "fallback">> }
    /\ \A i \in 1..Len(retrieval.executed) :
         Produced(retrieval.executed, i - 1) < EnoughFragments

\* C15: when a deal_id is given and the narrow tier produced at least one
\* fragment, the narrow tier is the only tier that was executed.
C15_NarrowHitAnswersAlone ==
  (/\ ContextReturned
   /\ retrieval.deal_id # None
   /\ retrieval.executed # <<>>
   /\ retrieval.executed[1].tier = "narrow"
   /\ retrieval.executed[1].produced >= 1) =>
    TiersRun(retrieval.executed) = <<"narrow">>

\* C18: the diagnostics account for every tier that was executed:
\* searches_performed is the number of tiers run, those that produced
\* nothing included, and total_fragments_found is the sum of what they
\* produced.
C18_DiagnosticsCountEveryTier ==
  ContextReturned =>
    /\ retrieval.searches_performed = Len(retrieval.executed)
    /\ retrieval.total_fragments_found =
         Produced(retrieval.executed, Len(retrieval.executed))

\* C19: get_relevant_context always returns a result, and when no tier found
\* anything (the store or the embedding call may have failed underneath) the
\* result has an empty summary and no fragments, and its diagnostics name,
\* by one threshold per tier, the tiers that were run.
C19_EmptyResultNamesTiers ==
  (ContextReturned /\ retrieval.context_fragments = <<>>) =>
    /\ retrieval.context_summary = <<>>
    /\ retrieval.raw_fragments = <<>>
    /\ retrieval.total_relevant_fragments = 0
    /\ Len(retrieval.similarity_thresholds_used) = Len(retrieval.executed)

\* C16: a call of get_relevant_context issues at least one and at most three
\* scans against the store, one per tier, and returns at most as many
\* fragments as the result caps of the three tiers add up to.
C16_OneScanPerTier ==
  ContextReturned =>
    /\ Len(retrieval.scans) >= 1
    /\ Len(retrieval.scans) <= 3
    /\ Len(retrieval.scans) = Len(retrieval.executed)
    /\ Len(retrieval.raw_fragments) <= 3 * max_results_per_search
    /\ retrieval.total_relevant_fragments <= 3 * max_results_per_search

\* the (message_id, chunk_index) pair of a fragment
FragmentKey(fragment) == <<fragment.message_id, fragment.chunk_index>>

\* C17: in the fragments get_relevant_context returns no two share a
\* (message_id, chunk_index) pair, also when several tiers or scans returned
\* the same chunk, and they are ordered by similarity, highest first; every
\* chunk that a tier found is among the fragments counted.
C17_FragmentsUniqueAndSorted ==
  ContextReturned =>
    LET raw == retrieval.raw_fragments
        found == retrieval.context_fragments
    IN /\ \A i, j \in 1..Len(raw) :
            i < j => /\ FragmentKey(raw[i]) # FragmentKey(raw[j])
                     /\ SimGeq(raw[i].similarity, raw[j].similarity)
       /\ retrieval.total_relevant_fragments =
            Cardinality({FragmentKey(found[i]) : i \in 1..Len(found)})
       /\ \A i \in 1..Len(raw) :
            \E k \in 1..Len(found) : FragmentKey(found[k]) = FragmentKey(raw[i])

\* a call has returned two or more fragments after its tiers found the same
\* chunk twice and found a less similar chunk before a more similar one
C17_Witness ==
  /\ ContextReturned
  /\ Len(retrieval.raw_fragments) >= 2
  /\ LET found == retrieval.context_fragments
     IN /\ \E i, j \in 1..Len(found) :
             i < j /\ FragmentKey(found[i]) = FragmentKey(found[j])
        /\ \E i, j \in 1..Len(found) :
             /\ i < j
             /\ FragmentKey(found[i]) # FragmentKey(found[j])
             /\ ~SimGeq(found[i].similarity, found[j].similarity)

\* a character of a word: anything but a blank or a punctuation mark
IsWordChar(ch) == ch \notin {" ", ".", ",", ";", ":", "\n"}

\* C20: the summary get_relevant_context returns is at most the configured
\* max_context_length long, the three characters of the truncation marker
\* apart, and a summary that was cut is cut between two words: the last
\* character kept and the first character dropped do not belong to one word.
C20_SummaryCappedAtWordBoundary ==
  ContextReturned =>
    LET summary == retrieval.context_summary
        full == retrieval.uncut_summary
        kept == Len(summary) - 3
    IN /\ Len(summary) <= maint.config_max_context_length + 3
       /\ summary # full =>
            /\ summary = SubSeq(full, 1, kept) \o <<".", ".", ".">>
            /\ ~(IsWordChar(full[kept]) /\ IsWordChar(full[kept + 1]))

\* C11: a storage error during store_message, search_similar_messages,
\* cleanup_old_messages or get_stats reaches the caller as an error: no call
\* that met a storage error has returned False, an empty result list, a
\* deletion count of 0 or an empty statistics map.
C11_StorageErrorsSurface ==
  \A t \in Tasks :
    pc[t] = "returned" =>
      /\ ~(call[t].op = "sync" /\ call[t].success = "false")
      /\ ~(call[t].op = "search" /\ call[t].error /\ call[t].seen = <<>>)
      /\ ~(call[t].op = "cleanup" /\ call[t].error /\ call[t].deleted = 0)
      /\ ~(call[t].op = "stats" /\ call[t].error /\ call[t].stats = <<>>)

\* the scheduler's reindex ran in this step
SweepRan == maint'.last_batch_reindex # maint.last_batch_reindex

\* C13: the periodic sweep of the manager re-submits every stored chunk that
\* carries the zero vector: after a step in which the sweep ran, the record
\* of each such chunk is on the indexing queue, or the chunk has a vector
\* other than zero.
C13_SweepResubmitsZeroChunks ==
  [][SweepRan =>
       \A i \in 1..Len(conversation_chunks) :
         conversation_chunks[i].embedding = ZeroVector =>
           \/ \E k \in 1..Len(indexing_queue') :
                indexing_queue'[k].message_id = conversation_chunks[i].message_id
           \/ /\ i <= Len(conversation_chunks')
              /\ conversation_chunks'[i].embedding # ZeroVector]_vars

\* a turn of the loop of _split_into_chunks after which the loop goes on
SplitGoesOn(c) == pc[c] = "splitting" /\ pc'[c] = "splitting"

\* C29: _split_into_chunks terminates for every text, max_chunk_size and
\* overlap, because every turn of its loop that does not leave the loop
\* moves start strictly forward.
C29_SplitMovesForward ==
  [][\A c \in Callers : SplitGoesOn(c) => call'[c].start > call[c].start]_vars

\* _split_into_chunks has returned to a caller
SplitReturned(c) == pc[c] = "returned" /\ call[c].op = "split"

\* C30: every chunk _split_into_chunks returns is non-empty and at most
\* max_chunk_size + overlap characters long, and a text of at most
\* max_chunk_size characters is returned as one chunk.
C30_ChunksNonEmptyAndBounded ==
  \A c \in Callers :
    SplitReturned(c) =>
      /\ \A i \in 1..Len(call[c].chunks) :
           /\ call[c].chunks[i] # <<>>
           /\ Len(call[c].chunks[i]) <= call[c].maxsz + call[c].ov
      /\ Len(call[c].content) <= call[c].maxsz => Len(call[c].chunks) = 1

\* the chunks from the i-th on, each without a prefix of some length that it
\* shares with the end of its predecessor, spell `rest` exactly
RECURSIVE Rebuilds(_, _, _)
Rebuilds(chunks, i, rest) ==
  IF i > Len(chunks) THEN rest = <<>>
  ELSE LET chunk == chunks[i]
           before == IF i = 1 THEN <<>> ELSE chunks[i - 1]
       IN \E k \in 0..Len(chunk) :
            /\ k <= Len(before)
            /\ Slice(chunk, 0, k) = Slice(before, Len(before) - k, Len(before))
            /\ IsPrefix(Slice(chunk, k, Len(chunk)), rest)
            /\ Rebuilds(chunks, i + 1, Slice(rest, Len(chunk) - k, Len(rest)))

\* C31: for a sanitized text (one without blanks at its ends), the chunks
\* _split_into_chunks returns, concatenated in order after the prefix each
\* shares with its predecessor is removed, reproduce the text exactly.
C31_ChunksRebuildText ==
  \A c \in Callers :
    (SplitReturned(c) /\ call[c].content = Strip(call[c].content)) =>
      Rebuilds(call[c].chunks, 1, call[c].content)

\* C32: for every two adjacent chunks cut by _split_into_chunks, the region
\* of the text both contain is at most overlap characters long: the chunk a
\* turn appends ends at most overlap characters after the start of the next.
C32_OverlapBounded ==
  [][\A c \in Callers :
       SplitGoesOn(c) =>
         LET chunk == call'[c].raw[Len(call'[c].raw)]
         IN call[c].start + Len(chunk) - call'[c].start <= call[c].ov]_vars

\* two adjacent chunks were returned that share exactly overlap >= 1
\* characters of the text
C32_Witness ==
  \E c \in Callers :
    /\ SplitReturned(c)
    /\ call[c].ov >= 1
    /\ Len(call[c].raw) >= 2
    /\ LET first == call[c].raw[1]
           second == call[c].raw[2]
       IN /\ Len(first) >= call[c].ov
          /\ Len(second) >= call[c].ov
          /\ Slice(first, Len(first) - call[c].ov, Len(first))
               = Slice(second, 0, call[c].ov)
          /\ Len(first) + Len(second) - call[c].ov <= Len(call[c].content)

\* C33: start_scheduler and stop_scheduler keep the scheduler consistent:
\* after start is_scheduler_running is set, and a start while it is set
\* changes nothing and creates no task; a stop while it is clear changes
\* nothing; when a stop returns the flag is clear and the loop task has ended.
C33_SchedulerLifecycle ==
  [][\A c \in Callers :
       /\ (pc[c] = "idle" /\ call'[c].op = "start") =>
            /\ maint'.is_scheduler_running
            /\ maint.is_scheduler_running => maint' = maint
            /\ ~maint.is_scheduler_running => maint'.scheduler_task = "ready"
       /\ (pc[c] = "idle" /\ call'[c].op = "stop" /\ ~maint.is_scheduler_running) =>
            /\ maint' = maint
            /\ pc'[c] = "returned"
       /\ (pc[c] # "returned" /\ pc'[c] = "returned" /\ call'[c].op = "stop") =>
            /\ ~maint'.is_scheduler_running
            /\ maint'.scheduler_task \in {"none", "done"}]_vars

\* a stop_scheduler that found the loop asleep after a turn has cancelled it
\* and is about to return
C33_Witness ==
  \E c \in Callers :
    /\ pc[c] = "stopping"
    /\ maint.scheduler_task = "done"
    /\ ~maint.is_scheduler_running
    /\ maint.last_batch_reindex # NoDate

\* C39: whenever is_scheduler_running is set, a task of _scheduler_loop is
\* alive.
C39_RunningFlagMeansLiveLoop ==
  maint.is_scheduler_running => maint.scheduler_task \in {"ready", "sleeping"}

\* a step of a retrieval: of search_similar_messages, or of get_relevant_context
\* from its first tier to the building of the context
RetrievalStep(c) ==
  \/ pc[c] = "idle" /\ call'[c].op \in {"search", "context"}
  \/ call[c].op = "context" /\ pc[c] # "returned"

\* C34: a retrieval (search_similar_messages or get_relevant_context) leaves
\* the store unchanged: the record rows and the chunk rows with their
\* embeddings are after every one of its steps what they were before,
\* whatever the query, the scope and the outcome.
C34_RetrievalWritesNothing ==
  [][\A c \in Callers :
       RetrievalStep(c) =>
         /\ conversation_messages' = conversation_messages
         /\ conversation_chunks' = conversation_chunks]_vars

\* a retrieval of several scans that found fragments has returned over a
\* store that holds two records and their chunks
C34_Witness ==
  /\ Len(conversation_chunks) >= 2
  /\ Len(conversation_messages) >= 2
  /\ \E c \in Callers :
       /\ pc[c] = "returned"
       /\ call[c].op = "context"
       /\ retrieval.searches_performed >= 2
       /\ retrieval.context_fragments # <<>>

\* C35: the owner-wide tier scans all records of the customer with the
\* deal restriction dropped, at the medium threshold and over 60 days, and
\* every fragment that scan finds, whatever its deal_id, is in the result of
\* the tier.
C35_OwnerTierKeepsEveryDeal ==
  \A i \in 1..Len(retrieval.executed) :
    retrieval.executed[i].tier = "owner" =>
      \E k \in 1..Len(retrieval.scans) :
        LET scan == retrieval.scans[k]
        IN /\ scan.tier = "owner"
           /\ scan.filter = ScanFilter(retrieval.customer_id, None, None, None, 60)
           /\ scan.threshold = default_similarity_threshold
           /\ retrieval.executed[i].produced = scan.found

\* C36: every scan of the topic-fallback tier has no owner restriction, the
\* low threshold and the 90-day window, and the unscoped scan, with its
\* small cap, is issued only when no topic tag was derived from the query.
C36_FallbackScansWideAndTagged ==
  \A k \in 1..Len(retrieval.scans) :
    LET scan == retrieval.scans[k]
    IN scan.tier = "fallback" =>
         /\ scan.filter.customer_id = None
         /\ scan.filter.deal_id = None
         /\ scan.threshold = low_similarity_threshold
         /\ scan.filter.days_back = 90
         /\ (scan.filter.intent = None /\ scan.filter.category = None) =>
              /\ scan.max_results = FallbackCap
              /\ _extract_intent(<<>>) = None
              /\ _extract_category(<<>>, retrieval.context_type) = None

\* C37: in every state of the store every chunk row belongs to a record
\* row that exists, whatever store_message and cleanup_old_messages calls
\* ran, failed ones included.
C37_ChunksHaveRecords ==
  \A i \in 1..Len(conversation_chunks) :
    \E j \in 1..Len(conversation_messages) :
      conversation_messages[j].message_id = conversation_chunks[i].message_id

\* a cleanup has removed a record and its chunks while the chunks of a
\* newer record stay
C37_Witness ==
  /\ conversation_chunks # <<>>
  /\ \E c \in Callers :
       /\ pc[c] = "returned"
       /\ call[c].op = "cleanup"
       /\ ~call[c].error
       /\ call[c].deleted >= 1

\* the last ingest issued for message_id carried this content
LastIssued(message_id, content) ==
  \E j \in 1..Len(pre_call.issued) :
    /\ pre_call.issued[j].message_id = message_id
    /\ pre_call.issued[j].content = content

\* C38: when a message_id is ingested more than once the store ends up with
\* the content of the ingest issued last: once the record of the last ingest
\* issued for an id is stored, the worker does not replace it with the
\* content of an earlier ingest that was still queued.
C38_LastIssuedWins ==
  [][\A w \in Workers :
       LET m == call[w].message_id
       IN (/\ pc[w] = "got"
           /\ pc'[w] = "chunks"
           /\ \A k \in 1..Len(indexing_queue) : indexing_queue[k].message_id # m
           /\ \E i \in 1..Len(conversation_messages) :
                /\ conversation_messages[i].message_id = m
                /\ LastIssued(m, conversation_messages[i].content))
          => LastIssued(m, call[w].content)]_vars

\* _clean_content has returned to a caller
CleanReturned(c) == pc[c] = "returned" /\ call[c].op = "clean"

\* C27: _clean_content is idempotent: applied to a text it returned, it
\* returns that text unchanged.
C27_CleanIdempotent ==
  \A c \in Callers :
    CleanReturned(c) =>
      \A i \in 2..Len(call[c].cleaned) : call[c].cleaned[i] = call[c].cleaned[i - 1]

\* a self-introduction phrase of the name step begins in text before p
PhraseBefore(text, p) ==
  \E word \in name_phrases, q \in 1..Len(text) :
    q < p /\ StartsAt(lower(text), q, word)

\* C28: the name step replaces only capitalised words that follow a
\* self-introduction phrase: in a text the address step leaves alone, a
\* capitalised word with no such phrase before it is still there in the
\* result, and a text without any such phrase gets no name placeholder.
C28_OnlyIntroducedNamesMasked ==
  \A c \in Callers :
    (CleanReturned(c) /\ MaskAddresses(call[c].content, 1) = call[c].content) =>
      LET text == call[c].content
          result == call[c].cleaned[1]
      IN /\ \A p \in 1..Len(text) :
              (NameMatchLen(text, p) > 0 /\ ~PhraseBefore(text, p)) =>
                Contains(result, SubSeq(text, p, p + NameMatchLen(text, p) - 1))
         /\ (~PhraseBefore(text, Len(text) + 1)) => ~Contains(result, NAME)

\* C26: every text store_message writes for a record is the output of
\* _clean_content: the content and the cleaned_content of the record row,
\* and the chunks, come from the sanitized text, never from the original.
C26_OnlySanitizedTextStored ==
  \A c \in Callers :
    SyncReturned(c) =>
      \A i \in 1..Len(conversation_messages) :
        conversation_messages[i].message_id = call[c].message_id =>
          /\ conversation_messages[i].content = _clean_content(call[c].content)
          /\ conversation_messages[i].cleaned_content = _clean_content(call[c].content)

\* a run of cleanup_old_messages that committed
CleanupCommits(c) ==
  /\ pc[c] = "idle" /\ pc'[c] = "returned"
  /\ call'[c].op = "cleanup"
  /\ ~call'[c].error

\* the ids of the records older than the cutoff of a cleanup run now
OldIds ==
  {conversation_messages[i].message_id :
     i \in {j \in 1..Len(conversation_messages) :
              conversation_messages[j].timestamp < now - cleanup_days}}

NotOld(row) == row.message_id \notin OldIds

\* C24: cleanup_old_messages removes every record older than the cutoff with
\* all of its chunks and nothing else: the other records and their chunks are
\* as they were, the chunk count drops by the number of chunks of the removed
\* records, the number of removed records is returned, and a scan that
\* follows returns no fragment of a record that is not in the store.
C24_CleanupRemovesExactlyOld ==
  /\ [][\A c \in Callers :
         CleanupCommits(c) =>
           /\ conversation_messages' = SelectSeq(conversation_messages, NotOld)
           /\ conversation_chunks' = SelectSeq(conversation_chunks, NotOld)
           /\ Len(conversation_chunks) - Len(conversation_chunks') =
                Cardinality({i \in 1..Len(conversation_chunks) :
                               conversation_chunks[i].message_id \in OldIds})
           /\ call'[c].deleted = Cardinality(OldIds)]_vars
  /\ [](\A c \in Callers :
         SearchReturned(c) =>
           \A i \in 1..Len(call[c].seen) :
             \E j \in 1..Len(conversation_messages) :
               conversation_messages[j].message_id = call[c].seen[i].message_id)

\* a run of cleanup_old_messages has removed a record with its chunks and
\* has left a record with a chunk
C24_Witness ==
  \E c \in Callers :
    /\ pc[c] = "returned" /\ call[c].op = "cleanup" /\ ~call[c].repeated
    /\ call[c].deleted >= 1
    /\ Len(conversation_messages) >= 1
    /\ Len(conversation_chunks) >= 1

\* the repeated run of cleanup_old_messages commits, after a first run that
\* committed
CleanupRepeats(c) ==
  /\ pc[c] = "returned" /\ call[c].op = "cleanup" /\ ~call[c].repeated
  /\ ~call[c].error
  /\ call'[c].repeated /\ ~call'[c].again_error

\* C25: a second run of cleanup_old_messages with the same cutoff and no
\* ingestion since the first leaves the store as the first run left it and
\* returns 0.
C25_CleanupIdempotent ==
  [][\A c \in Callers :
       CleanupRepeats(c) =>
         /\ conversation_messages' = conversation_messages
         /\ conversation_chunks' = conversation_chunks
         /\ call'[c].again_deleted = 0]_vars

\* the second run has returned after a first run that removed two records
C25_Witness ==
  \E c \in Callers :
    /\ pc[c] = "returned" /\ call[c].op = "cleanup" /\ call[c].repeated
    /\ ~call[c].error /\ ~call[c].again_error
    /\ call[c].deleted = 2

\* search_similar_messages_with or semantic_search has returned a result
\* (not the [] of an exception)
RankedReturned(c) ==
  /\ pc[c] = "returned" /\ call[c].op \in {"search", "semantic"}
  /\ ~call[c].error
  /\ call[c].op = "semantic" => call[c].query_embedding # <<>>

\* the rows a returned search had to choose from, with the similarity of
\* each: for search_similar_messages the chunks of the records that pass the
\* filter, for semantic_search the products
Scanned(c) ==
  IF call[c].op = "semantic"
  THEN { [key |-> <<j>>,
          similarity |-> cosine_similarity(call[c].query_embedding,
                                           call[c].products[j])] :
           j \in 1..Len(call[c].products) }
  ELSE { [key |-> <<conversation_chunks[j].message_id,
                    conversation_chunks[j].chunk_index>>,
          similarity |-> cosine_similarity(call[c].query_embedding,
                                           conversation_chunks[j].embedding)] :
           j \in {k \in 1..Len(conversation_chunks) :
                    \E i \in 1..Len(conversation_messages) :
                      /\ conversation_messages[i].message_id =
                           conversation_chunks[k].message_id
                      /\ Matches(conversation_messages[i], call[c].filter, now)} }

\* the rows among them that reach the threshold of the call
Qualifying(c) == {r \in Scanned(c) : AtLeast(r.similarity, call[c].threshold)}

\* the key and the similarity of a result row
ResultKey(c, row) ==
  IF call[c].op = "semantic" THEN <<row.id>>
  ELSE <<row.message_id, row.chunk_index>>

Returned(c) ==
  { [key |-> ResultKey(c, call[c].seen[k]),
     similarity |-> call[c].seen[k].similarity] : k \in 1..Len(call[c].seen) }

\* C21: search_similar_messages (and semantic_search with its limit and
\* threshold) returns the max_results most similar rows among those that pass
\* the filter and reach the threshold, all of them if there are fewer, most
\* similar first: nothing below the threshold is returned and no qualifying
\* row is left out for a less similar one.
C21_TopResultsRanked ==
  \A c \in Callers :
    RankedReturned(c) =>
      LET seen == call[c].seen
          limit == call[c].max_results
          count == Cardinality(Qualifying(c))
      IN /\ Returned(c) \subseteq Qualifying(c)
         /\ Cardinality(Returned(c)) = Len(seen)
         /\ Len(seen) = IF count < limit THEN count ELSE limit
         /\ \A i, j \in 1..Len(seen) :
              i < j => SimGeq(seen[i].similarity, seen[j].similarity)
         /\ \A r \in Qualifying(c) \ Returned(c) :
              \A k \in 1..Len(seen) : SimGeq(seen[k].similarity, r.similarity)

\* a search of the conversation store has cut a longer list of qualifying
\* chunks to two of different similarity, and left out a less similar one
C21_Witness ==
  \E c \in Callers :
    /\ RankedReturned(c) /\ call[c].op = "search"
    /\ Len(call[c].seen) = 2
    /\ Cardinality(Qualifying(c)) >= 3
    /\ ~SimGeq(call[c].seen[2].similarity, call[c].seen[1].similarity)
    /\ \E r \in Qualifying(c) \ Returned(c) :
         ~SimGeq(r.similarity, call[c].seen[2].similarity)

\* C22: every result of search_similar_messages satisfies every filter field
\* that was supplied (customer_id, deal_id, intent, category, and a record
\* timestamp no older than days_back), and a field that was not supplied
\* excludes nothing: every chunk of a record that satisfies the supplied
\* fields and reaches the threshold is returned (up to max_results).
C22_SuppliedFiltersAllHold ==
  \A c \in Callers :
    (SearchReturned(c) /\ ~call[c].error) =>
      LET f == call[c].filter
          Satisfies(cm) ==
            /\ f.customer_id # None => cm.customer_id = f.customer_id
            /\ f.deal_id # None => cm.deal_id = f.deal_id
            /\ f.intent # None => cm.intent = f.intent
            /\ f.category # None => cm.category = f.category
            /\ f.days_back # NoDays => cm.timestamp >= now - f.days_back
          wanted ==
            {j \in 1..Len(conversation_chunks) :
               /\ \E i \in 1..Len(conversation_messages) :
                    /\ conversation_messages[i].message_id =
                         conversation_chunks[j].message_id
                    /\ Satisfies(conversation_messages[i])
               /\ AtLeast(cosine_similarity(call[c].query_embedding,
                                            conversation_chunks[j].embedding),
                          call[c].threshold)}
      IN /\ \A k \in 1..Len(call[c].seen) :
              \E i \in 1..Len(conversation_messages) :
                /\ conversation_messages[i].message_id = call[c].seen[k].message_id
                /\ Satisfies(conversation_messages[i])
         /\ Cardinality(wanted) <= call[c].max_results =>
              \A j \in wanted :
                \E k \in 1..Len(call[c].seen) :
                  /\ call[c].seen[k].message_id = conversation_chunks[j].message_id
                  /\ call[c].seen[k].chunk_index = conversation_chunks[j].chunk_index

\* the embedding stored for a result row of search_similar_messages
EmbeddingOf(row) ==
  LET j == CHOOSE k \in 1..Len(conversation_chunks) :
             /\ conversation_chunks[k].message_id = row.message_id
             /\ conversation_chunks[k].chunk_index = row.chunk_index
  IN conversation_chunks[j].embedding

\* C23: the similarity against a zero-norm vector is 0: a chunk stored with
\* the all-zero embedding, and any chunk compared with an all-zero query
\* vector, has similarity 0 in a result and is in no result of a scan whose
\* threshold is greater than 0.
C23_ZeroNormScoresZero ==
  \A c \in Callers :
    (SearchReturned(c) /\ ~call[c].error) =>
      \A k \in 1..Len(call[c].seen) :
        (call[c].query_embedding = ZeroVector
           \/ EmbeddingOf(call[c].seen[k]) = ZeroVector) =>
          /\ call[c].seen[k].similarity[1] = 0
          /\ call[c].threshold <= 0

\* a scan with a threshold above 0 has returned a chunk and has passed over
\* a chunk of the same customer that is stored with the zero vector
C23_Witness ==
  \E c \in Callers :
    /\ SearchReturned(c) /\ ~call[c].error
    /\ call[c].threshold > 0
    /\ call[c].seen # <<>>
    /\ \E r \in Scanned(c) : r.similarity[1] = 0 /\ r \notin Returned(c)
    /\ \E j \in 1..Len(conversation_chunks) :
         conversation_chunks[j].embedding = ZeroVector

====
